---- MODULE Spec2Model ----
(***************************************************************************)
(* Tag-driven struct marshaling (query string, JSON, CSV) and the          *)
(* structural mutators of package helper.                                  *)
(*                                                                         *)
(* A Go string is a sequence of one-character strings.  A struct type is   *)
(* a sequence of field descriptors (the field's kind and its tag texts);   *)
(* a record is a sequence of field values, one per field of its type.      *)
(***************************************************************************)
EXTENDS Integers, Sequences, FiniteSets, TLC

VARIABLES typ, rec, pre, op, args, ret, retb, retn, err, emitted, at

vars == <<typ, rec, pre, op, args, ret, retb, retn, err, emitted, at>>

----------------------------------------------------------------------------
(* Bounds of the model                                                     *)

MaxFields == 2
MaxInt == 1
MaxTokens == 2
MaxSlice == 2
\* the longest text a record field is let to hold
MaxText == 6

----------------------------------------------------------------------------
(* Strings                                                                 *)

RECURSIVE Join(_, _)
Join(ss, sep) ==
    IF Len(ss) = 0 THEN <<>>
    ELSE IF Len(ss) = 1 THEN ss[1]
    ELSE ss[1] \o sep \o Join(Tail(ss), sep)

IsPrefixAt(s, p, k) ==
    /\ k + Len(p) - 1 <= Len(s)
    /\ \A j \in 1..Len(p) : s[k + j - 1] = p[j]

RECURSIVE SplitFrom(_, _, _, _)
SplitFrom(s, sep, k, cur) ==
    IF k > Len(s) THEN <<cur>>
    ELSE IF IsPrefixAt(s, sep, k)
         THEN <<cur>> \o SplitFrom(s, sep, k + Len(sep), <<>>)
         ELSE SplitFrom(s, sep, k + 1, Append(cur, s[k]))

Split(s, sep) == SplitFrom(s, sep, 1, <<>>)

RECURSIVE ReplaceFrom(_, _, _, _)
ReplaceFrom(s, old, new, k) ==
    IF k > Len(s) THEN <<>>
    ELSE IF IsPrefixAt(s, old, k)
         THEN new \o ReplaceFrom(s, old, new, k + Len(old))
         ELSE <<s[k]>> \o ReplaceFrom(s, old, new, k + 1)

Replace(s, old, new) == ReplaceFrom(s, old, new, 1)

Left(s, n) ==
    IF n <= 0 THEN <<>> ELSE IF n >= Len(s) THEN s ELSE SubSeq(s, 1, n)

Right(s, n) ==
    IF n <= 0 THEN <<>> ELSE IF n >= Len(s) THEN s ELSE SubSeq(s, Len(s) - n + 1, Len(s))

IsSpace(c) == c = " "

RECURSIVE TrimLeft(_)
TrimLeft(s) ==
    IF Len(s) > 0 /\ IsSpace(s[1]) THEN TrimLeft(Tail(s)) ELSE s

RECURSIVE TrimRight(_)
TrimRight(s) ==
    IF Len(s) > 0 /\ IsSpace(s[Len(s)]) THEN TrimRight(SubSeq(s, 1, Len(s) - 1)) ELSE s

Trim(s) == TrimRight(TrimLeft(s))

LenTrim(s) == Len(Trim(s))

\* the letters the model's strings are made of
ToLowerChar(c) ==
    CASE c = "A" -> "a" [] c = "B" -> "b" [] c = "E" -> "e" [] c = "F" -> "f"
      [] c = "G" -> "g" [] c = "K" -> "k" [] c = "N" -> "n" [] c = "O" -> "o"
      [] c = "P" -> "p" [] c = "R" -> "r" [] c = "S" -> "s" [] c = "T" -> "t"
      [] c = "U" -> "u" [] c = "W" -> "w" [] c = "Y" -> "y" [] OTHER -> c

ToLower(s) == [k \in 1..Len(s) |-> ToLowerChar(s[k])]

Digits == <<"0", "1", "2", "3", "4", "5", "6", "7", "8", "9">>

IsDigit(c) == \E k \in 1..10 : Digits[k] = c

RECURSIVE Itoa(_)
Itoa(n) ==
    IF n < 0 THEN <<"-">> \o Itoa(0 - n)
    ELSE IF n < 10 THEN <<Digits[n + 1]>>
    ELSE Itoa(n \div 10) \o <<Digits[(n % 10) + 1]>>

Int64ToString(n) == Itoa(n)

RECURSIVE DigitsVal(_, _)
DigitsVal(s, acc) ==
    IF Len(s) = 0 THEN acc ELSE DigitsVal(Tail(s), acc * 10 + (CHOOSE k \in 1..10 : Digits[k] = s[1]) - 1)

\* (value, ok): ok is false, and the value 0, when the text is no integer
ParseInt(s) ==
    LET t == Trim(s)
        neg == Len(t) > 0 /\ t[1] = "-"
        d == IF neg THEN Tail(t) ELSE t
    IN IF Len(d) > 0 /\ \A k \in 1..Len(d) : IsDigit(d[k])
       THEN [n |-> IF neg THEN 0 - DigitsVal(d, 0) ELSE DigitsVal(d, 0), ok |-> TRUE]
       ELSE [n |-> 0, ok |-> FALSE]

ParseInt32(s) == ParseInt(s)

ParseInt64(s) == ParseInt(s)

ParseFloat64(s) == ParseInt(s)

StrTrue == <<"t", "r", "u", "e">>
StrFalse == <<"f", "a", "l", "s", "e">>

trueList == {StrTrue, <<"y", "e", "s">>, <<"o", "n">>, <<"1">>, <<"e", "n", "a", "b", "l", "e", "d">>}

ParseBool(s) ==
    IF ToLower(Trim(s)) \in trueList THEN [b |-> TRUE, ok |-> TRUE]
    ELSE IF ToLower(Trim(s)) \in {StrFalse, <<"n", "o">>, <<"o", "f", "f">>, <<"0">>}
         THEN [b |-> FALSE, ok |-> TRUE]
         ELSE [b |-> FALSE, ok |-> FALSE]

----------------------------------------------------------------------------
(* Struct types, field tags and field values                               *)

\* every tag of a field; a tag the field does not declare is the empty text
NoTags ==
    [name |-> <<>>, kind |-> "string", canset |-> TRUE,
     tag |-> <<>>, excl |-> <<>>, uniqueid |-> <<>>, getter |-> <<>>, setter |-> <<>>,
     def |-> <<>>, booltrue |-> <<>>, boolfalse |-> <<>>, skipblank |-> <<>>,
     skipzero |-> <<>>, zeroblank |-> <<>>, timeformat |-> <<>>, outprefix |-> <<>>,
     pos |-> <<>>, type |-> <<>>, regex |-> <<>>, size |-> <<>>, range |-> <<>>,
     req |-> <<>>, validate |-> <<>>]

\* a field value: str for string kinds, num for integer kinds, flag for bool
\* kinds, valid for the sql.Null* wrappers and for a non-nil interface
ZeroVal == [str |-> <<>>, num |-> 0, flag |-> FALSE, valid |-> FALSE]

StrVal(s) == [ZeroVal EXCEPT !.str = s]
IntVal(n) == [ZeroVal EXCEPT !.num = n]
BoolVal(b) == [ZeroVal EXCEPT !.flag = b]
NullStr(s) == [ZeroVal EXCEPT !.str = s, !.valid = TRUE]
NullInt(n) == [ZeroVal EXCEPT !.num = n, !.valid = TRUE]
NullBoolVal(b) == [ZeroVal EXCEPT !.flag = b, !.valid = TRUE]

\* the tag namespaces a caller can name: NsName holds the output names,
\* NsExcl the exclusion marks, NsNone is a namespace no field declares
NsName == <<"t">>
NsExcl == <<"x">>
NsNone == <<"q">>

TagGet(d, ns) ==
    IF ns = NsName THEN d.tag ELSE IF ns = NsExcl THEN d.excl ELSE <<>>

\* the receiver of a call: nil, a non-pointer, a pointer to a non-struct, or
\* a pointer to the record
Receivers == {"nil", "nonptr", "nonstruct", "ok"}

----------------------------------------------------------------------------
(* Methods of the record's types that tags name (getter, setter, validate) *)

MethodKey == <<"K", "e", "y">>
MethodParse == <<"P", "a", "r", "s", "e">>
MethodValid == <<"V", "a", "l", "i", "d">>
MethodFail == <<"F", "a", "i", "l">>

\* Key() of an enum-like int: the zero value is the UNKNOWN member
EnumKey(n) == IF n = 0 THEN <<"U", "N", "K", "N", "O", "W", "N">> ELSE <<"E">> \o Itoa(n)

\* ReflectCall on the field value: (found, result)
ReflectCallGetter(o, name) ==
    IF name = MethodKey /\ o.kind = "int"
    THEN [found |-> TRUE, o |-> [kind |-> "string", v |-> StrVal(EnumKey(o.v.num))]]
    ELSE [found |-> FALSE, o |-> o]

----------------------------------------------------------------------------
(* ReflectValueToString: canonical text of a value, (buf, skip, err)       *)

ReflectValueToString(o, boolTrue, boolFalse, skipBlank, skipZero, timeFormat, zeroBlank) ==
    CASE o.kind = "string" ->
            IF skipBlank /\ LenTrim(o.v.str) = 0
            THEN [buf |-> <<>>, skip |-> TRUE, err |-> FALSE]
            ELSE [buf |-> o.v.str, skip |-> FALSE, err |-> FALSE]
      [] o.kind = "bool" ->
            IF o.v.flag
            THEN [buf |-> IF Len(boolTrue) = 0 THEN StrTrue ELSE Trim(boolTrue),
                  skip |-> FALSE, err |-> FALSE]
            ELSE IF skipZero
                 THEN [buf |-> <<>>, skip |-> TRUE, err |-> FALSE]
                 ELSE [buf |-> IF Len(boolFalse) = 0 \/ Trim(boolTrue) = Trim(boolFalse)
                               THEN StrFalse ELSE Trim(boolFalse),
                       skip |-> FALSE, err |-> FALSE]
      [] o.kind = "int" ->
            IF skipZero /\ o.v.num = 0
            THEN [buf |-> <<>>, skip |-> TRUE, err |-> FALSE]
            ELSE [buf |-> IF zeroBlank /\ o.v.num = 0 THEN <<>> ELSE Itoa(o.v.num),
                  skip |-> FALSE, err |-> FALSE]
      [] o.kind = "nullstring" ->
            LET b == IF o.v.valid THEN o.v.str ELSE <<>>
            IN IF skipBlank /\ LenTrim(b) = 0
               THEN [buf |-> <<>>, skip |-> TRUE, err |-> FALSE]
               ELSE [buf |-> b, skip |-> FALSE, err |-> FALSE]
      [] o.kind = "nullint" ->
            IF ~o.v.valid
            THEN [buf |-> <<>>, skip |-> skipBlank \/ skipZero, err |-> FALSE]
            ELSE IF skipZero /\ o.v.num = 0
                 THEN [buf |-> <<>>, skip |-> TRUE, err |-> FALSE]
                 ELSE [buf |-> IF zeroBlank /\ o.v.num = 0 THEN <<>> ELSE Itoa(o.v.num),
                       skip |-> FALSE, err |-> FALSE]
      [] o.kind = "nullbool" ->
            IF ~o.v.valid
            THEN [buf |-> <<>>, skip |-> skipBlank \/ skipZero, err |-> FALSE]
            ELSE
            LET b == o.v.flag
            IN IF b
               THEN [buf |-> IF Len(boolTrue) = 0 THEN StrTrue ELSE Trim(boolTrue),
                     skip |-> FALSE, err |-> FALSE]
               ELSE IF skipZero
                    THEN [buf |-> <<>>, skip |-> TRUE, err |-> FALSE]
                    ELSE [buf |-> IF Len(boolFalse) = 0 \/ Trim(boolTrue) = Trim(boolFalse)
                                  THEN StrFalse ELSE Trim(boolFalse),
                          skip |-> FALSE, err |-> FALSE]
      [] OTHER -> [buf |-> <<>>, skip |-> FALSE, err |-> TRUE]

\* the getter tag: "base." prefix and "(x)" suffix stripped, the method
\* looked up, and its first result taken when it is found
StrBase == <<"b", "a", "s", "e", ".">>

ApplyGetter(d, o) ==
    LET tagGetter == Trim(d.getter)
        isBase == ToLower(Left(tagGetter, 5)) = StrBase
        g1 == IF isBase THEN Right(tagGetter, Len(tagGetter) - 5) ELSE tagGetter
        useParam == ToLower(Right(g1, 3)) = <<"(", "x", ")">>
        g2 == IF useParam THEN Left(g1, Len(g1) - 3) ELSE g1
    IN IF Len(tagGetter) = 0 \/ isBase \/ useParam
       THEN o
       ELSE ReflectCallGetter(o, g2).o

----------------------------------------------------------------------------
(* url.PathEscape: unreserved characters and $ & + = : @ pass, the rest is *)
(* percent-encoded                                                         *)

PathEscapeChar(c) ==
    CASE c = " " -> <<"%", "2", "0">>
      [] c = "\"" -> <<"%", "2", "2">>
      [] c = "%" -> <<"%", "2", "5">>
      [] c = "'" -> <<"%", "2", "7">>
      [] c = "," -> <<"%", "2", "C">>
      [] c = "/" -> <<"%", "2", "F">>
      [] c = ";" -> <<"%", "3", "B">>
      [] c = "?" -> <<"%", "3", "F">>
      [] c = "\\" -> <<"%", "5", "C">>
      [] c = "{" -> <<"%", "7", "B">>
      [] c = "}" -> <<"%", "7", "D">>
      [] c = "|" -> <<"%", "7", "C">>
      [] c = "<" -> <<"%", "3", "C">>
      [] c = ">" -> <<"%", "3", "E">>
      [] c = "#" -> <<"%", "2", "3">>
      [] c = "!" -> <<"%", "2", "1">>
      [] c = "(" -> <<"%", "2", "8">>
      [] c = ")" -> <<"%", "2", "9">>
      [] c = "*" -> <<"%", "2", "A">>
      [] c = "[" -> <<"%", "5", "B">>
      [] c = "]" -> <<"%", "5", "D">>
      [] c = "^" -> <<"%", "5", "E">>
      [] OTHER -> <<c>>

RECURSIVE PathEscape(_)
PathEscape(s) ==
    IF Len(s) = 0 THEN <<>> ELSE PathEscapeChar(s[1]) \o PathEscape(Tail(s))

----------------------------------------------------------------------------
(* The unique-group map of one marshal call                                *)

UniqueKey(d) == ToLower(Trim(d.uniqueid))

HasUniqueId(d) == Len(Trim(d.uniqueid)) > 0

\* a visit that claims nothing
UniqueClaimNever(uniqueMap, d) == uniqueMap

UniqueClaim(uniqueMap, d) ==
    IF HasUniqueId(d) THEN uniqueMap \cup {UniqueKey(d)} ELSE uniqueMap

\* a skipped field that keeps its claim on the group
UniqueReleaseKept(uniqueMap, d) == uniqueMap

UniqueRelease(uniqueMap, d) ==
    IF HasUniqueId(d) THEN uniqueMap \ {UniqueKey(d)} ELSE uniqueMap


----------------------------------------------------------------------------
(* MarshalStructToQueryParams                                              *)

\* a map that still holds the groups of the fields the call before appended
MarshalStartLeaked ==
    [output |-> <<>>,
     uniqueMap |-> {ToLower(Trim(typ[emitted[k]].uniqueid)) : k \in 1..Len(emitted)}
                   \ {<<>>},
     emitted |-> <<>>]

\* what the marshal loops carry from field to field: the output text, the
\* unique-group map, and the list of fields that have been appended
MarshalStart == [output |-> <<>>, uniqueMap |-> {}, emitted |-> <<>>]

\* the output key of a field: its tag in the caller's namespace, or its name
OutputKey(d, tagName) ==
    IF LenTrim(TagGet(d, tagName)) = 0 THEN d.name ELSE TagGet(d, tagName)

\* an exclusion test that looks at the name tag alone
IsExcludedByName(d, tagName, excludeTagName) ==
    IF LenTrim(TagGet(d, tagName)) = 0 THEN FALSE ELSE TagGet(d, tagName) = <<"-">>

IsExcluded(d, tagName, excludeTagName) ==
    \/ OutputKey(d, tagName) = <<"-">>
    \/ LenTrim(excludeTagName) > 0 /\ Trim(TagGet(d, excludeTagName)) = <<"-">>

\* the int field whose text is "unknown" (an enum's zero member)
IsUnknownEnum(d, v, buf) ==
    d.kind = "int" /\ v.num = 0 /\ ToLower(buf) = <<"u", "n", "k", "n", "o", "w", "n">>

QueryValue(d, buf) ==
    LET boolFalse == d.boolfalse
        outPrefix == d.outprefix
        skipBlank == ParseBool(d.skipblank).b
        skipZero == ParseBool(d.skipzero).b
    IN IF boolFalse = <<" ">> /\ Len(outPrefix) > 0 /\ buf = StrFalse
       THEN <<>>
       ELSE LET b == IF Len(buf) = 0 /\ Len(d.def) > 0 THEN d.def ELSE buf
            IN IF skipBlank /\ LenTrim(b) = 0 THEN <<>>
               ELSE IF skipZero /\ b = <<"0">> THEN <<>>
               ELSE outPrefix \o b

QueryAppend(st, i, tag, buf) ==
    [st EXCEPT !.output = (IF LenTrim(st.output) > 0 THEN st.output \o <<"&">> ELSE st.output)
                          \o tag \o <<"=">> \o PathEscape(buf),
               !.emitted = Append(st.emitted, i)]

\* one pass of the loop body, for field i
QueryField(T, R, i, tagName, excludeTagName, st) ==
    LET d == T[i]
        tag == OutputKey(d, tagName)
    IN IF IsExcluded(d, tagName, excludeTagName) THEN st
       ELSE IF HasUniqueId(d) /\ UniqueKey(d) \in st.uniqueMap THEN st
       ELSE
         LET st1 == [st EXCEPT !.uniqueMap = UniqueClaim(st.uniqueMap, d)]
             o == ApplyGetter(d, [kind |-> d.kind, v |-> R[i]])
             r == ReflectValueToString(o, d.booltrue, d.boolfalse, ParseBool(d.skipblank).b,
                                       ParseBool(d.skipzero).b, d.timeformat,
                                       ParseBool(d.zeroblank).b)
         IN IF r.err \/ r.skip
            THEN [st1 EXCEPT !.uniqueMap = UniqueRelease(st1.uniqueMap, d)]
            ELSE IF IsUnknownEnum(d, R[i], r.buf)
                 THEN IF Len(d.def) > 0
                      THEN QueryAppend(st1, i, tag, QueryValue(d, d.def))
                      ELSE IF HasUniqueId(d)
                           THEN [st1 EXCEPT !.uniqueMap = UniqueRelease(st1.uniqueMap, d)]
                           ELSE QueryAppend(st1, i, tag, QueryValue(d, <<>>))
                 ELSE QueryAppend(st1, i, tag, QueryValue(d, r.buf))

RECURSIVE QueryLoop(_, _, _, _, _, _)
QueryLoop(T, R, i, tagName, excludeTagName, st) ==
    IF i > Len(T) THEN st
    ELSE QueryLoop(T, R, i + 1, tagName, excludeTagName,
                   QueryField(T, R, i, tagName, excludeTagName, st))

QueryResult(st) ==
    IF LenTrim(st.output) = 0
    THEN [out |-> <<>>, err |-> "blank", emitted |-> st.emitted]
    ELSE [out |-> st.output, err |-> "", emitted |-> st.emitted]

\* (output, err, emitted) of the call
MarshalStructToQueryParams(recv, T, R, tagName, excludeTagName) ==
    IF recv = "nil" THEN [out |-> <<>>, err |-> "nil", emitted |-> <<>>]
    ELSE IF LenTrim(tagName) = 0 THEN [out |-> <<>>, err |-> "tagname", emitted |-> <<>>]
    ELSE IF recv = "nonptr" THEN [out |-> <<>>, err |-> "nonptr", emitted |-> <<>>]
    ELSE IF recv = "nonstruct" THEN [out |-> <<>>, err |-> "nonstruct", emitted |-> <<>>]
    ELSE QueryResult(QueryLoop(T, R, 1, tagName, excludeTagName, MarshalStart))

----------------------------------------------------------------------------
(* MarshalStructToJson and MarshalSliceStructToJson                        *)

\* json.Marshal of one character of a string (HTML-safe escaping included)
JsonEscapeChar(c) ==
    CASE c = "\"" -> <<"\\", "\"">>
      [] c = "\\" -> <<"\\", "\\">>
      [] c = "&" -> <<"\\", "u", "0", "0", "2", "6">>
      [] c = "<" -> <<"\\", "u", "0", "0", "3", "c">>
      [] c = ">" -> <<"\\", "u", "0", "0", "3", "e">>
      [] OTHER -> <<c>>

RECURSIVE JsonToEscaped(_)
JsonToEscaped(s) ==
    IF s = <<>> THEN <<>> ELSE JsonEscapeChar(Head(s)) \o JsonToEscaped(Tail(s))

JsonValue(d, buf) ==
    LET outPrefix == d.outprefix
        b == IF d.booltrue = <<" ">> /\ Len(buf) = 0 /\ Len(outPrefix) > 0
             THEN outPrefix \o d.def
             ELSE IF d.boolfalse = <<" ">> /\ buf = StrFalse /\ Len(outPrefix) > 0
                  THEN <<>>
                  ELSE IF Len(d.def) > 0 /\ Len(buf) = 0 THEN outPrefix \o d.def ELSE buf
    IN Replace(Replace(b, <<"\"">>, <<"\\", "\"">>), <<"'">>, <<"\\", "'">>)

JsonAppend(st, i, tag, buf) ==
    [st EXCEPT !.output = (IF LenTrim(st.output) > 0 THEN st.output \o <<",", " ">> ELSE st.output)
                          \o <<"\"">> \o tag \o <<"\"", ":", "\"">> \o JsonToEscaped(buf) \o <<"\"">>,
               !.emitted = Append(st.emitted, i)]

JsonField(T, R, i, tagName, excludeTagName, st) ==
    LET d == T[i]
        tag == OutputKey(d, tagName)
    IN IF IsExcluded(d, tagName, excludeTagName) THEN st
       ELSE IF HasUniqueId(d) /\ UniqueKey(d) \in st.uniqueMap THEN st
       ELSE
         LET st1 == [st EXCEPT !.uniqueMap = UniqueClaim(st.uniqueMap, d)]
             o == ApplyGetter(d, [kind |-> d.kind, v |-> R[i]])
             r == ReflectValueToString(o, d.booltrue, d.boolfalse, ParseBool(d.skipblank).b,
                                       ParseBool(d.skipzero).b, d.timeformat,
                                       ParseBool(d.zeroblank).b)
         IN IF r.err \/ r.skip
            THEN [st1 EXCEPT !.uniqueMap = UniqueRelease(st1.uniqueMap, d)]
            ELSE IF IsUnknownEnum(d, R[i], r.buf)
                 THEN IF Len(d.def) > 0
                      THEN JsonAppend(st1, i, tag, JsonValue(d, d.def))
                      ELSE IF HasUniqueId(d)
                           THEN [st1 EXCEPT !.uniqueMap = UniqueRelease(st1.uniqueMap, d)]
                           ELSE JsonAppend(st1, i, tag, JsonValue(d, <<>>))
                 ELSE JsonAppend(st1, i, tag, JsonValue(d, r.buf))

RECURSIVE JsonLoop(_, _, _, _, _, _)
JsonLoop(T, R, i, tagName, excludeTagName, st) ==
    IF i > Len(T) THEN st
    ELSE JsonLoop(T, R, i + 1, tagName, excludeTagName,
                  JsonField(T, R, i, tagName, excludeTagName, st))

JsonResult(st) ==
    IF LenTrim(st.output) = 0
    THEN [out |-> <<>>, err |-> "blank", emitted |-> st.emitted]
    ELSE [out |-> <<"{">> \o st.output \o <<"}">>, err |-> "", emitted |-> st.emitted]

MarshalStructToJson(recv, T, R, tagName, excludeTagName) ==
    IF recv = "nil" THEN [out |-> <<>>, err |-> "nil", emitted |-> <<>>]
    ELSE IF LenTrim(tagName) = 0 THEN [out |-> <<>>, err |-> "tagname", emitted |-> <<>>]
    ELSE IF recv = "nonptr" THEN [out |-> <<>>, err |-> "nonptr", emitted |-> <<>>]
    ELSE IF recv = "nonstruct" THEN [out |-> <<>>, err |-> "nonstruct", emitted |-> <<>>]
    ELSE JsonResult(JsonLoop(T, R, 1, tagName, excludeTagName, MarshalStart))

\* the loop over the slice: elems is a sequence of (recv, record) pairs
RECURSIVE SliceLoop(_, _, _, _, _, _)
RECURSIVE SliceStep(_, _, _, _, _, _, _)
SliceLoop(T, elems, k, tagName, excludeTagName, jsonArrayOutput) ==
    IF k > Len(elems)
    THEN IF LenTrim(jsonArrayOutput) > 0
         THEN [out |-> <<"[">> \o jsonArrayOutput \o <<"]">>, err |-> "", emitted |-> <<>>]
         ELSE [out |-> <<>>, err |-> "blank", emitted |-> <<>>]
    ELSE SliceStep(T, elems, k, tagName, excludeTagName, jsonArrayOutput,
                   MarshalStructToJson(elems[k].recv, T, elems[k].rec, tagName, excludeTagName))

\* a loop body that hands back what the earlier elements gave when one fails
SliceStepPartial(T, elems, k, tagName, excludeTagName, jsonArrayOutput, m) ==
    IF m.err # ""
    THEN [out |-> jsonArrayOutput, err |-> "element", emitted |-> <<>>]
    ELSE SliceLoop(T, elems, k + 1, tagName, excludeTagName,
                   (IF LenTrim(jsonArrayOutput) > 0
                    THEN jsonArrayOutput \o <<",", " ">> ELSE jsonArrayOutput) \o m.out)

\* the loop body for element k, whose marshal returned m
SliceStep(T, elems, k, tagName, excludeTagName, jsonArrayOutput, m) ==
    IF m.err # ""
    THEN [out |-> <<>>, err |-> "element", emitted |-> <<>>]
    ELSE SliceLoop(T, elems, k + 1, tagName, excludeTagName,
                   (IF LenTrim(jsonArrayOutput) > 0
                    THEN jsonArrayOutput \o <<",", " ">> ELSE jsonArrayOutput) \o m.out)

MarshalSliceStructToJson(T, elems, tagName, excludeTagName) ==
    IF Len(elems) = 0 THEN [out |-> <<>>, err |-> "empty", emitted |-> <<>>]
    ELSE SliceLoop(T, elems, 1, tagName, excludeTagName, <<>>)


----------------------------------------------------------------------------
(* Structural mutators                                                     *)

ValidStruct(recv) == recv = "ok"

\* StructClearFields: every settable field back to its zero value
StructClearFields(recv, T, R) ==
    IF ~ValidStruct(recv) THEN R
    ELSE [i \in 1..Len(T) |-> IF T[i].canset THEN ZeroVal ELSE R[i]]

StructNonDefaultRequiredFieldsCount(recv, T, R) ==
    IF ~ValidStruct(recv) THEN 0
    ELSE Cardinality({i \in 1..Len(T) :
            T[i].canset /\ Len(T[i].def) = 0 /\ ToLower(T[i].req) = StrTrue})

\* the test IsStructFieldSet makes on one field
FieldIsSet(d, v) ==
    LET tagDef == d.def
    IN CASE d.kind = "string" -> LenTrim(v.str) > 0 /\ v.str # tagDef
         [] d.kind = "bool" -> v.flag
         [] d.kind = "int" -> v.num # 0 /\ Int64ToString(v.num) # tagDef
         [] d.kind = "nullstring" -> v.valid /\ (Len(tagDef) = 0 \/ v.str # tagDef)
         [] d.kind = "nullbool" -> v.valid /\ (Len(tagDef) = 0 \/ ParseBool(tagDef).b)
         [] d.kind = "nullint" -> v.valid /\ (Len(tagDef) = 0 \/ Int64ToString(v.num) # tagDef)
         [] d.kind = "iface" -> v.valid
         [] OTHER -> FALSE

IsStructFieldSet(recv, T, R) ==
    /\ ValidStruct(recv)
    /\ \E i \in 1..Len(T) : T[i].canset /\ FieldIsSet(T[i], R[i])

\* Parse(text) of an enum-like int: the inverse of Key(), 0 for any other text
EnumParse(s) ==
    IF Len(s) >= 2 /\ ToLower(Left(s, 1)) = <<"e">> /\ ParseInt(Tail(s)).ok
    THEN ParseInt(Tail(s)).n ELSE 0

\* ReflectCall of a setter on the field value: (found, text of the result)
ReflectCallSetter(d, name, text) ==
    IF name = MethodParse /\ d.kind = "int"
    THEN [found |-> TRUE, text |-> Itoa(EnumParse(text))]
    ELSE [found |-> FALSE, text |-> text]

\* a default that is added to what the field holds on every call
FieldDefaultAppended(d, v) ==
    IF d.kind = "string" /\ Len(d.def) > 0 THEN StrVal(v.str \o d.def)
    ELSE IF d.kind = "int" /\ Len(d.def) > 0 THEN IntVal((v.num + 1) % (MaxInt + 2))
    ELSE v

\* a default that is written over whatever the field holds
FieldDefaultOverwrites(d, v) ==
    IF d.kind = "string" /\ Len(d.def) > 0 THEN StrVal(d.def)
    ELSE IF d.kind = "nullstring" /\ Len(d.def) > 0 THEN NullStr(d.def)
    ELSE v

\* the default SetStructFieldDefaultValues writes into one field
FieldDefault(d, v) ==
    LET tagDef == d.def
    IN IF Len(tagDef) = 0 THEN v
       ELSE CASE d.kind = "string" ->
                    IF LenTrim(v.str) = 0 THEN StrVal(tagDef) ELSE v
              [] d.kind = "int" ->
                    IF v.num # 0 THEN v
                    ELSE LET tagSetter == Trim(d.setter)
                         IN IF LenTrim(tagSetter) = 0
                            THEN IF ParseInt64(tagDef).ok /\ ParseInt64(tagDef).n # 0
                                 THEN IntVal(ParseInt64(tagDef).n) ELSE v
                            ELSE LET c == ReflectCallSetter(d, tagSetter, tagDef)
                                 IN IF c.found /\ ParseInt64(c.text).ok /\ ParseInt64(c.text).n # 0
                                    THEN IntVal(ParseInt64(c.text).n) ELSE v
              [] d.kind = "nullstring" ->
                    IF ~v.valid THEN NullStr(tagDef) ELSE v
              [] d.kind = "nullbool" ->
                    IF ~v.valid THEN NullBoolVal(ParseBool(tagDef).b) ELSE v
              [] d.kind = "nullint" ->
                    IF ~v.valid /\ ParseInt64(tagDef).ok /\ ParseInt64(tagDef).n # 0
                    THEN NullInt(ParseInt64(tagDef).n) ELSE v
              [] OTHER -> v

\* (record after the call, returned flag)
SetStructFieldDefaultValues(recv, T, R) ==
    IF ~ValidStruct(recv) THEN [rec |-> R, ret |-> FALSE]
    ELSE [rec |-> [i \in 1..Len(T) |-> IF T[i].canset THEN FieldDefault(T[i], R[i]) ELSE R[i]],
          ret |-> TRUE]


----------------------------------------------------------------------------
(* Kind filters and the size, range and req tags of the CSV operations     *)

IsAlpha(c) ==
    /\ ~IsDigit(c)
    /\ c \notin {"&", "=", "\"", "'", "%", ",", "/", ";", "?", "\\", "{", "}", ":", "-", ".",
                 "+", "(", ")", "[", "]", "|", "<", ">", "!", "_", "~", "$", "@", "#", "*", "^"}
    /\ c \notin {" ", "\t", "\n"}

ExtractAlpha(s) == SelectSeq(s, IsAlpha)

ExtractNumeric(s) == SelectSeq(s, IsDigit)

ExtractAlphaNumeric(s) == SelectSeq(s, LAMBDA c : IsAlpha(c) \/ IsDigit(c))

ExtractAlphaNumericPrintableSymbols(s) == SelectSeq(s, LAMBDA c : c \notin {"\t", "\n"})

ExtractHex(s) ==
    SelectSeq(s, LAMBDA c : IsDigit(c) \/ ToLowerChar(c) \in {"a", "b", "c", "d", "e", "f"})

\* the one pattern the model's types declare: every run of digits is removed
ExtractByRegex(s, pattern) ==
    IF pattern = <<"[", "0", "-", "9", "]", "+">>
    THEN SelectSeq(s, LAMBDA c : ~IsDigit(c))
    ELSE s

FilteredTypes == {<<"a">>, <<"a", "n">>, <<"a", "n", "s">>, <<"n">>,
                  <<"r", "e", "g", "e", "x">>, <<"h">>, <<"b", "6", "4">>}

\* the type tag as the CSV operations read it: blank unless it is a known
\* type, and blank for a regex type without a pattern
TagType(d) ==
    LET t == Trim(ToLower(d.type))
        known == t \in FilteredTypes \cup {<<"b">>}
    IN IF ~known THEN <<>>
       ELSE IF t = <<"r", "e", "g", "e", "x">> /\ LenTrim(Trim(d.regex)) = 0 THEN <<>>
       ELSE t

TagRegEx(d) ==
    IF Trim(ToLower(d.type)) = <<"r", "e", "g", "e", "x">> THEN Trim(d.regex) ELSE <<>>

\* size "x", "x..", "..y", "x..y", each with an optional "+%z": (min, max, modulo)
\* "x..y" as (min, max); a text without ".." is both the minimum and the maximum
MinMax(text, ar) ==
    [min |-> IF Len(ar) = 2 THEN ParseInt32(ar[1]).n ELSE ParseInt32(text).n,
     max |-> IF Len(ar) = 2 THEN ParseInt32(ar[2]).n ELSE ParseInt32(text).n]

SizeOf(tagSize, arModulo) ==
    [min |-> MinMax(tagSize, Split(tagSize, <<".", ".">>)).min,
     max |-> MinMax(tagSize, Split(tagSize, <<".", ".">>)).max,
     modulo |-> IF Len(arModulo) = 2 /\ ParseInt32(arModulo[2]).n >= 0
                THEN ParseInt32(arModulo[2]).n ELSE 0]

SizeSplit(tagSize, arModulo) ==
    SizeOf(IF Len(arModulo) = 2 THEN arModulo[1] ELSE tagSize, arModulo)

SizeRule(d) ==
    SizeSplit(Trim(ToLower(d.size)), Split(Trim(ToLower(d.size)), <<"+", "%">>))

RangeRule(d) ==
    MinMax(Trim(ToLower(d.range)), Split(Trim(ToLower(d.range)), <<".", ".">>))

TagReq(d) ==
    LET t == Trim(ToLower(d.req))
    IN IF t # StrTrue /\ t # StrFalse THEN <<>> ELSE t

ApplyTypeFilter(tagType, tagRegEx, hasAccessor, v) ==
    CASE tagType = <<"a">> -> ExtractAlpha(v)
      [] tagType = <<"n">> -> ExtractNumeric(v)
      [] tagType = <<"a", "n">> -> ExtractAlphaNumeric(v)
      [] tagType = <<"a", "n", "s">> ->
            IF hasAccessor THEN v ELSE ExtractAlphaNumericPrintableSymbols(v)
      [] tagType = <<"r", "e", "g", "e", "x">> -> ExtractByRegex(v, tagRegEx)
      [] tagType = <<"h">> -> ExtractHex(v)
      [] tagType = <<"b", "6", "4">> -> ExtractAlphaNumericPrintableSymbols(v)
      [] OTHER -> v

\* record-level methods a validate ":=Xyz" tag can name: (found, ok)
ReflectCallValidator(R, name) ==
    IF name = MethodValid
    THEN [found |-> TRUE, ok |-> \A i \in 1..Len(R) : R[i].str # <<"x">>]
    ELSE IF name = MethodFail
         THEN [found |-> TRUE, ok |-> FALSE]
         ELSE [found |-> FALSE, ok |-> TRUE]


----------------------------------------------------------------------------
(* The validate tag                                                        *)

ValidateComp(d) == Left(Trim(d.validate), 2)

ValidateData(d) == Right(Trim(d.validate), Len(Trim(d.validate)) - 2)

HasValidate(d) == Len(Trim(d.validate)) >= 3

InList(value, valAr) == \E k \in 1..Len(valAr) : ToLower(value) = ToLower(valAr[k])

\* whether a comparison form of validate rejects the value
ValidateCompareFails(valComp, valData, value, tagReq) ==
    LET checked == Len(value) > 0 \/ tagReq = StrTrue
        valNum == ParseFloat64(valData)
        srcNum == ParseFloat64(value).n
    IN CASE valComp = <<"=", "=">> ->
                IF Len(Split(valData, <<"|", "|">>)) <= 1
                THEN ToLower(value) # ToLower(valData) /\ checked
                ELSE ~InList(value, Split(valData, <<"|", "|">>)) /\ checked
         [] valComp = <<"!", "=">> ->
                IF Len(Split(valData, <<"&", "&">>)) <= 1
                THEN ToLower(value) = ToLower(valData) /\ checked
                ELSE InList(value, Split(valData, <<"&", "&">>)) /\ checked
         [] valComp = <<"<", "=">> -> valNum.ok /\ srcNum > valNum.n /\ checked
         [] valComp = <<"<", "<">> -> valNum.ok /\ srcNum >= valNum.n /\ checked
         [] valComp = <<">", "=">> -> valNum.ok /\ srcNum < valNum.n /\ checked
         [] valComp = <<">", ">">> -> valNum.ok /\ srcNum <= valNum.n /\ checked
         [] OTHER -> FALSE

\* validate as MarshalStructToCSV applies it: TRUE when the call must fail
CsvMarshalValidateFails(d, R, fv) ==
    /\ HasValidate(d)
    /\ IF ValidateComp(d) = <<":", "=">>
       THEN /\ Len(ValidateData(d)) > 0
            /\ ReflectCallValidator(R, ValidateData(d)).found
            /\ ~ReflectCallValidator(R, ValidateData(d)).ok
       ELSE ValidateCompareFails(ValidateComp(d), ValidateData(d), fv, TagReq(d))

----------------------------------------------------------------------------
(* MarshalStructToCSV                                                      *)

\* the slot text that marks "value not set, to be excluded"
SlotUnset == <<"{", "?", "}">>

CsvStart(n) ==
    [csvList |-> [k \in 1..n |-> SlotUnset], owner |-> [k \in 1..n |-> 0],
     uniqueMap |-> {}, err |-> ""]

CsvStore(st, i, tagPos, text) ==
    [st EXCEPT !.csvList[tagPos + 1] = text, !.owner[tagPos + 1] = i]

\* size, modulo, range and req checks of one value: the error, or ""
\* the value cut to the maximum size of a kind-filtered field
Truncate(tagType, sz, fv) ==
    IF tagType \in FilteredTypes /\ sz.max > 0 /\ Len(fv) > sz.max
    THEN Left(fv, sz.max) ELSE fv

CsvMarshalTruncate(d, tagType, fv) == Truncate(tagType, SizeRule(d), fv)

\* the rules with the modulo taken of the value before it is cut to the maximum
CsvMarshalRulesUncut(tagType, tagReq, sz, rg, fv, cut, n) ==
    IF tagType \in FilteredTypes /\ sz.min > 0 /\ Len(fv) > 0 /\ Len(fv) < sz.min
    THEN "minlength"
    ELSE IF tagType \in FilteredTypes /\ sz.modulo > 0 /\ Len(fv) % sz.modulo # 0
    THEN "modulo"
    ELSE IF tagReq = StrTrue /\ Len(cut) = 0
    THEN "required"
    ELSE ""

CsvMarshalRules(tagType, tagReq, sz, rg, fv, cut, n) ==
    IF tagType \in FilteredTypes /\ sz.min > 0 /\ Len(fv) > 0 /\ Len(fv) < sz.min
    THEN "minlength"
    ELSE IF tagType \in FilteredTypes /\ sz.modulo > 0 /\ Len(cut) % sz.modulo # 0
    THEN "modulo"
    ELSE IF tagType = <<"n">> /\ n.ok /\ rg.min > 0 /\ n.n < rg.min
            /\ ~(n.n = 0 /\ tagReq # StrTrue)
    THEN "rangemin"
    ELSE IF tagType = <<"n">> /\ n.ok /\ rg.max > 0 /\ n.n > rg.max
    THEN "rangemax"
    ELSE IF tagReq = StrTrue /\ Len(cut) = 0
    THEN "required"
    ELSE ""

\* size, modulo, range and req checks of one value: the error, or ""
CsvMarshalRuleError(d, tagType, fv) ==
    CsvMarshalRules(tagType, TagReq(d), SizeRule(d), RangeRule(d), fv,
                    CsvMarshalTruncate(d, tagType, fv),
                    ParseInt32(CsvMarshalTruncate(d, tagType, fv)))

\* the kind filter of MarshalStructToCSV; type "b" maps to true/false when
\* the field declares no bool literals
CsvMarshalFilter(d, tagType, fv) ==
    IF tagType = <<"b">>
    THEN IF Len(d.booltrue) = 0 /\ Len(d.boolfalse) = 0
         THEN IF ToLower(fv) \in trueList THEN StrTrue ELSE StrFalse
         ELSE fv
    ELSE ApplyTypeFilter(tagType, TagRegEx(d), Len(Trim(d.getter)) > 0, fv)

WithDefault(d, fv) == IF Len(fv) = 0 /\ Len(d.def) > 0 THEN d.def ELSE fv

\* rules, validate and store, for the filtered value with its default (fv)
\* and the same cut to the maximum size (cut)
CsvMarshalChecked(d, R, i, tagPos, st, tagType, fv, cut) ==
    IF CsvMarshalRuleError(d, tagType, fv) # ""
    THEN [st EXCEPT !.err = CsvMarshalRuleError(d, tagType, fv)]
    ELSE IF CsvMarshalValidateFails(d, R, cut)
    THEN [st EXCEPT !.err = "validate"]
    ELSE IF ParseBool(d.skipblank).b /\ LenTrim(cut) = 0
    THEN CsvStore(st, i, tagPos, <<>>)
    ELSE IF ParseBool(d.skipzero).b /\ cut = <<"0">>
    THEN CsvStore(st, i, tagPos, <<>>)
    ELSE CsvStore(st, i, tagPos, d.outprefix \o cut)

\* the value after the unknown-enum step: filter, default, rules, validate, store
CsvMarshalValue(T, R, i, tagPos, st, fv0) ==
    IF TagType(T[i]) = <<"b">> /\ ~(Len(T[i].booltrue) = 0 /\ Len(T[i].boolfalse) = 0)
       /\ Trim(T[i].booltrue) = Trim(T[i].boolfalse) /\ fv0 = StrFalse
    THEN CsvStore(st, i, tagPos, <<>>)
    ELSE IF T[i].boolfalse = <<" ">> /\ fv0 = StrFalse /\ Len(T[i].outprefix) > 0
    THEN CsvStore(st, i, tagPos, <<>>)
    ELSE CsvMarshalChecked(T[i], R, i, tagPos, st, TagType(T[i]),
                           WithDefault(T[i], CsvMarshalFilter(T[i], TagType(T[i]), fv0)),
                           CsvMarshalTruncate(T[i], TagType(T[i]),
                               WithDefault(T[i], CsvMarshalFilter(T[i], TagType(T[i]), fv0))))

\* one pass of the loop body, for field i
CsvMarshalField(T, R, i, st) ==
    LET d == T[i]
        csvLen == Len(T)
        tagPos == ParseInt32(d.pos)
    IN IF ~d.canset THEN st
       ELSE IF ~tagPos.ok \/ tagPos.n < 0 \/ tagPos.n > csvLen - 1 THEN st
       ELSE IF HasUniqueId(d) /\ UniqueKey(d) \in st.uniqueMap THEN st
       ELSE
         LET st1 == [st EXCEPT !.uniqueMap = UniqueClaim(st.uniqueMap, d)]
             o == ApplyGetter(d, [kind |-> d.kind, v |-> R[i]])
             r == ReflectValueToString(o, d.booltrue, d.boolfalse, ParseBool(d.skipblank).b,
                                       ParseBool(d.skipzero).b, d.timeformat,
                                       ParseBool(d.zeroblank).b)
         IN IF r.err
            THEN [st1 EXCEPT !.uniqueMap = UniqueRelease(st1.uniqueMap, d), !.err = "render"]
            ELSE IF r.skip
            THEN [st1 EXCEPT !.uniqueMap = UniqueRelease(st1.uniqueMap, d)]
            ELSE IF IsUnknownEnum(d, R[i], r.buf)
                 THEN IF Len(d.def) > 0
                      THEN CsvMarshalValue(T, R, i, tagPos.n, st1, d.def)
                      ELSE IF HasUniqueId(d)
                           THEN [st1 EXCEPT !.uniqueMap = UniqueRelease(st1.uniqueMap, d)]
                           ELSE CsvMarshalValue(T, R, i, tagPos.n, st1, <<>>)
                 ELSE CsvMarshalValue(T, R, i, tagPos.n, st1, r.buf)

RECURSIVE CsvMarshalLoop(_, _, _, _)
CsvMarshalLoop(T, R, i, st) ==
    IF i > Len(T) \/ st.err # "" THEN st
    ELSE CsvMarshalLoop(T, R, i + 1, CsvMarshalField(T, R, i, st))

\* the set slots joined in slot order
RECURSIVE CsvJoin(_, _, _, _)
CsvJoin(csvList, k, csvDelimiter, csvPayload) ==
    IF k > Len(csvList) THEN csvPayload
    ELSE IF csvList[k] = SlotUnset
         THEN CsvJoin(csvList, k + 1, csvDelimiter, csvPayload)
         ELSE CsvJoin(csvList, k + 1, csvDelimiter,
                      (IF LenTrim(csvPayload) > 0 THEN csvPayload \o csvDelimiter
                       ELSE csvPayload) \o csvList[k])

\* the fields whose value is in a set slot at the end, in slot order
CsvEmitted(st) == SelectSeq(st.owner, LAMBDA f : f # 0)

\* a failing call that hands back the slots filled so far
CsvResultPartial(st, csvDelimiter) ==
    [out |-> CsvJoin(st.csvList, 1, csvDelimiter, <<>>), err |-> st.err,
     emitted |-> CsvEmitted(st)]

CsvResult(st, csvDelimiter) ==
    IF st.err # ""
    THEN [out |-> <<>>, err |-> st.err, emitted |-> <<>>]
    ELSE [out |-> CsvJoin(st.csvList, 1, csvDelimiter, <<>>), err |-> "",
          emitted |-> CsvEmitted(st)]

MarshalStructToCSV(recv, T, R, csvDelimiter) ==
    IF recv = "nil" THEN [out |-> <<>>, err |-> "nil", emitted |-> <<>>]
    ELSE IF recv = "nonptr" THEN [out |-> <<>>, err |-> "nonptr", emitted |-> <<>>]
    ELSE IF recv = "nonstruct" THEN [out |-> <<>>, err |-> "nonstruct", emitted |-> <<>>]
    ELSE IF ~IsStructFieldSet(recv, T, R) /\ StructNonDefaultRequiredFieldsCount(recv, T, R) > 0
    THEN [out |-> <<>>, err |-> "", emitted |-> <<>>]
    ELSE CsvResult(CsvMarshalLoop(T, R, 1, CsvStart(Len(T))), csvDelimiter)


----------------------------------------------------------------------------
(* Struct types and records of the marshal specification                   *)

Named(ds) == [i \in 1..Len(ds) |-> [ds[i] EXCEPT !.name = <<<<"A">>, <<"B">>, <<"C">>, <<"D">>>>[i]]]

SeqsUpTo(S, n) == UNION {[1..k -> S] : k \in 1..n}

\* the values a field of a kind can hold
ValuesOf(d) ==
    CASE d.kind = "string" -> {StrVal(<<>>), StrVal(<<"a">>), StrVal(<<"&">>)}
      [] d.kind = "int" -> {IntVal(n) : n \in 0..MaxInt}
      [] d.kind = "bool" -> {BoolVal(FALSE), BoolVal(TRUE)}
      [] d.kind = "nullstring" -> {ZeroVal, NullStr(<<>>), NullStr(<<"d">>)}
      [] d.kind = "nullbool" -> {ZeroVal, NullBoolVal(FALSE), NullBoolVal(TRUE)}
      [] d.kind = "nullint" -> {ZeroVal} \cup {NullInt(n) : n \in 0..MaxInt}
      [] d.kind = "iface" -> {ZeroVal, [ZeroVal EXCEPT !.valid = TRUE]}
      [] OTHER -> {ZeroVal}

RecordsOf(T) == {R \in [1..Len(T) -> UNION {ValuesOf(T[i]) : i \in 1..Len(T)}] :
                    \A i \in 1..Len(T) : R[i] \in ValuesOf(T[i])}

MarshalFields ==
    {[NoTags EXCEPT !.pos = <<"0">>],
     [NoTags EXCEPT !.pos = <<"0">>, !.uniqueid = <<"u">>, !.skipblank = StrTrue],
     [NoTags EXCEPT !.pos = <<"1">>, !.uniqueid = <<"U", " ">>, !.def = <<"d">>, !.tag = <<"k">>],
     [NoTags EXCEPT !.pos = <<"0">>, !.uniqueid = <<"u">>, !.excl = <<"-">>],
     [NoTags EXCEPT !.pos = <<"1">>, !.tag = <<"-">>, !.uniqueid = <<"u">>],
     [NoTags EXCEPT !.pos = <<"1">>, !.kind = "int", !.getter = MethodKey, !.uniqueid = <<"u">>],
     [NoTags EXCEPT !.pos = <<"0">>, !.kind = "int", !.skipzero = StrTrue, !.uniqueid = <<"u">>],
     [NoTags EXCEPT !.pos = <<"1">>, !.kind = "bool", !.booltrue = <<"Y">>, !.boolfalse = <<"N">>,
                    !.skipzero = StrTrue],
     [NoTags EXCEPT !.pos = <<"0">>, !.kind = "custom", !.uniqueid = <<"u">>],
     [NoTags EXCEPT !.pos = <<"1">>, !.req = StrTrue, !.type = <<"a">>, !.size = <<"2">>,
                    !.validate = <<"!", "=", "a", "a">>]}

NoArgs == [recv |-> "ok", tagName |-> <<>>, excludeTagName |-> <<>>, payload |-> <<>>,
           csvDelimiter |-> <<>>, customDelimiterParserFunc |-> "nil", registry |-> FALSE,
           elems |-> <<>>]

\* the arguments a caller passes for the tag namespaces
TagArgs ==
    {[NoArgs EXCEPT !.recv = r] : r \in Receivers \ {"ok"}}
    \cup {[NoArgs EXCEPT !.tagName = t, !.excludeTagName = x] :
            t \in {<<>>, NsName, NsNone}, x \in {<<>>, NsExcl}}

InitMarshal ==
    /\ typ \in {Named(ds) : ds \in SeqsUpTo(MarshalFields, MaxFields)}
    /\ rec \in RecordsOf(typ)
    /\ pre = rec
    /\ op = "none"
    /\ args = NoArgs
    /\ ret = <<>>
    /\ retb = FALSE
    /\ retn = 0
    /\ err = ""
    /\ emitted = <<>>
    /\ at = 0

\* a marshal call: the record is read, the result is what the caller sees
Returned(name, a, m) ==
    /\ op = "none"
    /\ op' = name
    /\ args' = a
    /\ ret' = m.out
    /\ err' = m.err
    /\ emitted' = m.emitted
    /\ pre' = rec
    /\ UNCHANGED <<typ, rec, retb, retn, at>>

CallMarshalStructToQueryParams ==
    \E a \in TagArgs :
        Returned("MarshalStructToQueryParams", a,
                 MarshalStructToQueryParams(a.recv, typ, rec, a.tagName, a.excludeTagName))

CallMarshalStructToJson ==
    \E a \in TagArgs :
        Returned("MarshalStructToJson", a,
                 MarshalStructToJson(a.recv, typ, rec, a.tagName, a.excludeTagName))

\* the slices a caller builds from the record, its cleared copy and a nil
SliceElems ==
    {[recv |-> "ok", rec |-> rec], [recv |-> "ok", rec |-> StructClearFields("ok", typ, rec)],
     [recv |-> "nil", rec |-> rec]}

CallMarshalSliceStructToJson ==
    \E es \in {<<>>} \cup SeqsUpTo(SliceElems, MaxSlice), x \in {<<>>, NsExcl} :
        LET a == [NoArgs EXCEPT !.tagName = NsName, !.excludeTagName = x, !.elems = es]
        IN Returned("MarshalSliceStructToJson", a,
                    MarshalSliceStructToJson(typ, es, a.tagName, a.excludeTagName))

CallMarshalStructToCSV ==
    \E r \in Receivers :
        LET a == [NoArgs EXCEPT !.recv = r, !.csvDelimiter = <<",">>]
        IN Returned("MarshalStructToCSV", a, MarshalStructToCSV(r, typ, rec, a.csvDelimiter))

\* the caller takes the result; the record is ready for the next call
Continue ==
    /\ op # "none"
    /\ op' = "none"
    /\ args' = NoArgs
    /\ ret' = <<>>
    /\ retb' = FALSE
    /\ retn' = 0
    /\ err' = ""
    /\ emitted' = <<>>
    /\ at' = 0
    /\ pre' = rec
    /\ UNCHANGED <<typ, rec>>

NextMarshal ==
    \/ Continue
    \/ CallMarshalStructToQueryParams
    \/ CallMarshalStructToJson
    \/ CallMarshalSliceStructToJson
    \/ CallMarshalStructToCSV

SpecMarshal == InitMarshal /\ [][NextMarshal]_vars


----------------------------------------------------------------------------
(* json.Unmarshal of a payload into a map of raw values. The model reads   *)
(* flat objects: string keys, and values that are strings or bare literals *)

\* the first position at or after k that holds no white space
RECURSIVE JsonWs(_, _)
JsonWs(s, k) ==
    IF k <= Len(s) /\ s[k] \in {" ", "\t", "\n"} THEN JsonWs(s, k + 1) ELSE k

\* the position of the quote that closes the string opened before k, 0 if none
RECURSIVE JsonStringEnd(_, _)
JsonStringEnd(s, k) ==
    IF k > Len(s) THEN 0
    ELSE IF s[k] = "\"" THEN k
    ELSE IF s[k] = "\\"
         THEN IF k + 1 <= Len(s) /\ s[k + 1] \in {"\"", "\\", "/", "b", "f", "n", "r", "t", "u"}
              THEN JsonStringEnd(s, k + 2)
              ELSE 0
    ELSE JsonStringEnd(s, k + 1)

\* the last position of the bare literal that starts at k
RECURSIVE JsonBareEnd(_, _)
JsonBareEnd(s, k) ==
    IF k > Len(s) \/ s[k] \in {" ", "\t", "\n", ",", "}", "\"", ":", "{"} THEN k - 1
    ELSE JsonBareEnd(s, k + 1)

IsJsonLiteral(t) ==
    \/ t \in {StrTrue, StrFalse, <<"n", "u", "l", "l">>}
    \/ Len(t) > 0 /\ \A k \in 1..Len(t) : IsDigit(t[k])
    \/ Len(t) > 1 /\ t[1] = "-" /\ \A k \in 2..Len(t) : IsDigit(t[k])

\* the text of a JSON string, its escapes resolved
RECURSIVE JsonUnquote(_)
JsonUnquote(s) ==
    IF Len(s) = 0 THEN <<>>
    ELSE IF s[1] = "\\" /\ Len(s) >= 6 /\ s[2] = "u"
         THEN (CASE SubSeq(s, 3, 6) = <<"0", "0", "2", "6">> -> <<"&">>
                 [] SubSeq(s, 3, 6) = <<"0", "0", "3", "c">> -> <<"<">>
                 [] SubSeq(s, 3, 6) = <<"0", "0", "3", "e">> -> <<">">>
                 [] OTHER -> <<"?">>)
              \o JsonUnquote(SubSeq(s, 7, Len(s)))
    ELSE IF s[1] = "\\" /\ Len(s) >= 2
         THEN <<s[2]>> \o JsonUnquote(SubSeq(s, 3, Len(s)))
         ELSE <<s[1]>> \o JsonUnquote(Tail(s))

JsonFail == [ok |-> FALSE, keys |-> <<>>, raws |-> <<>>]

RECURSIVE JsonMembers(_, _, _)
\* the value from v0 to ve is read; a comma or the closing brace follows
JsonAfterValue(s, key, v0, ve, n, acc) ==
    IF ve < v0 \/ n > Len(s) THEN JsonFail
    ELSE IF s[v0] # "\"" /\ ~IsJsonLiteral(SubSeq(s, v0, ve)) THEN JsonFail
    ELSE IF s[n] = ","
         THEN JsonMembers(s, n + 1, [acc EXCEPT !.keys = Append(acc.keys, key),
                                                !.raws = Append(acc.raws, SubSeq(s, v0, ve))])
    ELSE IF s[n] = "}" /\ JsonWs(s, n + 1) > Len(s)
         THEN [acc EXCEPT !.keys = Append(acc.keys, key),
                          !.raws = Append(acc.raws, SubSeq(s, v0, ve))]
    ELSE JsonFail

JsonValueAt(s, key, v0, ve, acc) ==
    JsonAfterValue(s, key, v0, ve, JsonWs(s, ve + 1), acc)

\* the key from k0 to ke is read; a colon and the value follow
JsonAfterKey(s, k0, ke, c, acc) ==
    IF ke = 0 \/ c > Len(s) \/ s[c] # ":" THEN JsonFail
    ELSE IF JsonWs(s, c + 1) > Len(s) THEN JsonFail
    ELSE IF s[JsonWs(s, c + 1)] = "\""
         THEN IF JsonStringEnd(s, JsonWs(s, c + 1) + 1) = 0 THEN JsonFail
              ELSE JsonValueAt(s, JsonUnquote(SubSeq(s, k0 + 1, ke - 1)), JsonWs(s, c + 1),
                               JsonStringEnd(s, JsonWs(s, c + 1) + 1), acc)
         ELSE JsonValueAt(s, JsonUnquote(SubSeq(s, k0 + 1, ke - 1)), JsonWs(s, c + 1),
                          JsonBareEnd(s, JsonWs(s, c + 1)), acc)

JsonMemberAt(s, k0, acc) ==
    IF k0 > Len(s) \/ s[k0] # "\"" THEN JsonFail
    ELSE JsonAfterKey(s, k0, JsonStringEnd(s, k0 + 1),
                      IF JsonStringEnd(s, k0 + 1) = 0 THEN 0
                      ELSE JsonWs(s, JsonStringEnd(s, k0 + 1) + 1), acc)

JsonMembers(s, k, acc) == JsonMemberAt(s, JsonWs(s, k), acc)

JsonObjectAt(s, b) ==
    IF b > Len(s) \/ s[b] # "{" THEN JsonFail
    ELSE IF JsonWs(s, b + 1) <= Len(s) /\ s[JsonWs(s, b + 1)] = "}"
         THEN IF JsonWs(s, JsonWs(s, b + 1) + 1) > Len(s)
              THEN [ok |-> TRUE, keys |-> <<>>, raws |-> <<>>]
              ELSE JsonFail
         ELSE JsonMembers(s, b + 1, [ok |-> TRUE, keys |-> <<>>, raws |-> <<>>])

\* (ok, keys, raws): the members in payload order; a later member with the
\* same key replaces an earlier one when the map is read
JsonUnmarshal(s) == JsonObjectAt(s, JsonWs(s, 1))

JsonMapHas(m, key) == \E k \in 1..Len(m.keys) : m.keys[k] = key

JsonMapGet(m, key) ==
    m.raws[CHOOSE k \in 1..Len(m.keys) :
              m.keys[k] = key /\ \A j \in (k + 1)..Len(m.keys) : m.keys[j] # key]

JsonMapLen(m) == Cardinality({m.keys[k] : k \in 1..Len(m.keys)})

\* the raw value without its quotes, its escapes resolved
JsonFromEscaped(data) ==
    IF Len(data) >= 2 /\ data[1] = "\"" /\ data[Len(data)] = "\""
    THEN JsonUnquote(SubSeq(data, 2, Len(data) - 1))
    ELSE JsonUnquote(data)

----------------------------------------------------------------------------
(* ReflectStringToField: the text parsed into a field of the given kind,   *)
(* (value, err)                                                            *)

ReflectStringToField(d, v, text) ==
    CASE d.kind = "string" -> [v |-> StrVal(text), err |-> FALSE]
      [] d.kind = "bool" -> [v |-> BoolVal(ParseBool(text).b), err |-> FALSE]
      [] d.kind = "int" -> [v |-> IntVal(ParseInt64(text).n), err |-> FALSE]
      [] d.kind = "nullstring" -> [v |-> NullStr(text), err |-> FALSE]
      [] d.kind = "nullbool" -> [v |-> NullBoolVal(ParseBool(text).b), err |-> FALSE]
      [] d.kind = "nullint" -> [v |-> NullInt(ParseInt64(text).n), err |-> FALSE]
      [] OTHER -> [v |-> v, err |-> TRUE]

----------------------------------------------------------------------------
(* UnmarshalJsonToStruct                                                   *)

\* defaults, then clear
ResetRecordSwapped(recv, T, R) ==
    StructClearFields(recv, T, SetStructFieldDefaultValues(recv, T, R).rec)

\* clear, then defaults: the state of the record before any key or token is
\* laid over it
ResetRecord(recv, T, R) ==
    SetStructFieldDefaultValues(recv, T, StructClearFields(recv, T, R)).rec

\* the kinds reflect reports as Ptr, Interface, Struct or Slice
IsObjectKind(d) == d.kind \in {"nullstring", "nullbool", "nullint", "iface", "custom"}

\* the setter tag without its "base." prefix
SetterName(d) ==
    IF ToLower(Left(Trim(d.setter), 5)) = StrBase
    THEN Right(Trim(d.setter), Len(Trim(d.setter)) - 5)
    ELSE Trim(d.setter)

\* the text a setter of a plain field hands back, the text itself when the
\* method is not found
SetterText(d, text) ==
    IF ReflectCallSetter(d, SetterName(d), text).found
    THEN ReflectCallSetter(d, SetterName(d), text).text
    ELSE text

\* a setter of an object field: an interface without object is given one of
\* its registered type, and the pointer the setter returns is stored
ObjectSetter(d, v, text) ==
    IF d.kind = "iface"
    THEN IF SetterName(d) = MethodParse
         THEN [ZeroVal EXCEPT !.valid = TRUE, !.str = text]
         ELSE [v EXCEPT !.valid = TRUE]
    ELSE v

\* an interface field that holds no object and whose type is not registered
UnresolvedInterface(d, v, registry) == d.kind = "iface" /\ ~v.valid /\ ~registry

JsonBoolLiteral(d, jValue) ==
    IF d.booltrue = <<" ">> /\ Len(d.outprefix) > 0 /\ jValue = d.outprefix THEN StrTrue
    ELSE IF LenTrim(d.booltrue) > 0 /\ Len(jValue) > 0 /\ d.booltrue = jValue THEN StrTrue
    ELSE IF LenTrim(d.boolfalse) > 0 /\ Len(jValue) > 0 /\ d.boolfalse = jValue THEN StrFalse
    ELSE jValue

\* the key of a field in the payload
JsonKey(d, tagName) ==
    IF LenTrim(Trim(TagGet(d, tagName))) = 0 THEN d.name ELSE Trim(TagGet(d, tagName))

JsonSkipped(d, tagName, excludeTagName) ==
    \/ ~d.canset
    \/ Trim(TagGet(d, tagName)) = <<"-">>
    \/ LenTrim(excludeTagName) > 0 /\ Trim(TagGet(d, excludeTagName)) = <<"-">>

\* st is (rec, err, at): the record so far, the error, the field it came from
JsonStored(i, st, r) ==
    IF r.err THEN [st EXCEPT !.err = "field", !.at = i]
    ELSE [st EXCEPT !.rec[i] = r.v]

JsonStore(d, i, st, jValue) ==
    JsonStored(i, st, ReflectStringToField(d, st.rec[i], JsonBoolLiteral(d, jValue)))

JsonSetValue(d, i, registry, st, jValue) ==
    IF Len(jValue) > 0 /\ Len(Trim(d.setter)) > 0
    THEN IF ~IsObjectKind(d)
         THEN JsonStore(d, i, st, SetterText(d, jValue))
         ELSE IF UnresolvedInterface(d, st.rec[i], registry)
              THEN [st EXCEPT !.err = "interface", !.at = i]
              ELSE [st EXCEPT !.rec[i] = ObjectSetter(d, st.rec[i], jValue)]
    ELSE JsonStore(d, i, st, jValue)

JsonSetField(T, i, m, tagName, excludeTagName, registry, st) ==
    IF JsonSkipped(T[i], tagName, excludeTagName) THEN st
    ELSE IF ~JsonMapHas(m, JsonKey(T[i], tagName)) THEN st
    ELSE JsonSetValue(T[i], i, registry, st,
                      JsonFromEscaped(JsonMapGet(m, JsonKey(T[i], tagName))))

RECURSIVE JsonSetLoop(_, _, _, _, _, _, _)
JsonSetLoop(T, i, m, tagName, excludeTagName, registry, st) ==
    IF i > Len(T) \/ st.err # "" THEN st
    ELSE JsonSetLoop(T, i + 1, m, tagName, excludeTagName, registry,
                     JsonSetField(T, i, m, tagName, excludeTagName, registry, st))

\* a call that resets the record before it looks at the decoded payload
UnmarshalJsonDecodedCleared(recv, T, R, m, tagName, excludeTagName, registry) ==
    IF ~m.ok THEN [rec |-> ResetRecord(recv, T, R), err |-> "malformed", at |-> 0]
    ELSE IF JsonMapLen(m) = 0
         THEN [rec |-> ResetRecord(recv, T, R), err |-> "noelements", at |-> 0]
    ELSE JsonSetLoop(T, 1, m, tagName, excludeTagName, registry,
                     [rec |-> ResetRecord(recv, T, R), err |-> "", at |-> 0])

\* the call once the payload is decoded into m
UnmarshalJsonDecoded(recv, T, R, m, tagName, excludeTagName, registry) ==
    IF ~m.ok THEN [rec |-> R, err |-> "malformed", at |-> 0]
    ELSE IF JsonMapLen(m) = 0 THEN [rec |-> R, err |-> "noelements", at |-> 0]
    ELSE JsonSetLoop(T, 1, m, tagName, excludeTagName, registry,
                     [rec |-> ResetRecord(recv, T, R), err |-> "", at |-> 0])

\* (rec, err, at) of the call
UnmarshalJsonToStruct(recv, T, R, jsonPayload, tagName, excludeTagName, registry) ==
    IF recv = "nil" THEN [rec |-> R, err |-> "nil", at |-> 0]
    ELSE IF LenTrim(jsonPayload) = 0 THEN [rec |-> R, err |-> "payload", at |-> 0]
    ELSE IF LenTrim(tagName) = 0 THEN [rec |-> R, err |-> "tagname", at |-> 0]
    ELSE IF recv = "nonptr" THEN [rec |-> R, err |-> "nonptr", at |-> 0]
    ELSE IF recv = "nonstruct" THEN [rec |-> R, err |-> "nonstruct", at |-> 0]
    ELSE UnmarshalJsonDecoded(recv, T, R, JsonUnmarshal(jsonPayload), tagName,
                              excludeTagName, registry)

----------------------------------------------------------------------------
(* UnmarshalCSVToStruct                                                    *)

\* the token splitters a caller can pass: none, one that splits at ';', and
\* one that finds no token
CsvElements(csvPayload, csvDelimiter, customDelimiterParserFunc) ==
    IF Len(csvDelimiter) > 0 THEN Split(csvPayload, csvDelimiter)
    ELSE IF customDelimiterParserFunc = "semicolon" THEN Split(csvPayload, <<";">>)
    ELSE <<>>

\* the literals tested with the false literal first
CsvBoolLiteralFalseFirst(d, csvValue) ==
    IF Len(Trim(d.boolfalse)) > 0 /\ Trim(d.boolfalse) = csvValue THEN StrFalse
    ELSE IF Len(Trim(d.booltrue)) > 0 /\ Trim(d.booltrue) = csvValue THEN StrTrue
    ELSE csvValue

\* the declared bool literals mapped to "true" and "false"
CsvBoolLiteral(d, csvValue) ==
    IF Len(Trim(d.booltrue)) > 0 /\ Trim(d.booltrue) = csvValue THEN StrTrue
    ELSE IF Len(Trim(d.boolfalse)) > 0 /\ Trim(d.boolfalse) = csvValue THEN StrFalse
    ELSE csvValue

PrefixKey(d) == ToLower(Trim(d.outprefix))

PrefixMatches(d, v) == ToLower(Left(v, Len(Trim(d.outprefix)))) = PrefixKey(d)

\* the first token that carries the prefix of the field, 0 when none does
PrefixToken(d, csvElements) ==
    IF \E k \in 1..Len(csvElements) : PrefixMatches(d, csvElements[k])
    THEN CHOOSE k \in 1..Len(csvElements) :
            /\ PrefixMatches(d, csvElements[k])
            /\ \A j \in 1..(k - 1) : ~PrefixMatches(d, csvElements[j])
    ELSE 0

PrefixValue(d, v) ==
    IF Len(v) - Len(Trim(d.outprefix)) = 0
    THEN IF d.booltrue = <<" ">> THEN StrTrue ELSE <<>>
    ELSE CsvBoolLiteral(d, Right(v, Len(v) - Len(Trim(d.outprefix))))

\* the kind filter of UnmarshalCSVToStruct
CsvUnmarshalFilter(d, csvValue) ==
    IF TagType(d) = <<"b">>
    THEN IF ToLower(csvValue) \in trueList THEN StrTrue ELSE StrFalse
    ELSE ApplyTypeFilter(TagType(d), TagRegEx(d), LenTrim(Trim(d.setter)) > 0, csvValue)

\* a size check that also refuses a value below the minimum size
CsvModuloFailsOrShort(d, csvValue) ==
    /\ TagType(d) \in FilteredTypes
    /\ \/ SizeRule(d).modulo > 0 /\ Len(csvValue) % SizeRule(d).modulo # 0
       \/ SizeRule(d).min > 0 /\ Len(csvValue) < SizeRule(d).min

CsvModuloFails(d, csvValue) ==
    /\ TagType(d) \in FilteredTypes
    /\ SizeRule(d).modulo > 0
    /\ Len(csvValue) % SizeRule(d).modulo # 0

\* the validate forms whose failure clears the record before it returns
ValidateClears(d) ==
    CASE ValidateComp(d) = <<"=", "=">> -> Len(Split(ValidateData(d), <<"|", "|">>)) <= 1
      [] ValidateComp(d) = <<"!", "=">> -> Len(Split(ValidateData(d), <<"&", "&">>)) <= 1
      [] OTHER -> TRUE

\* st is (rec, err, at, stop, prefixProcessedMap)
CsvStored(i, st, r) ==
    IF r.err THEN [st EXCEPT !.err = "field", !.at = i]
    ELSE [st EXCEPT !.rec[i] = r.v]

\* validate ":=" with the record's method asked before the value is written
CsvNamedValidatorEarly(T, i, st, r) ==
    IF r.err THEN [st EXCEPT !.err = "field", !.at = i]
    ELSE IF /\ ReflectCallValidator(st.rec, ValidateData(T[i])).found
            /\ ~ReflectCallValidator(st.rec, ValidateData(T[i])).ok
         THEN [st EXCEPT !.rec = StructClearFields("ok", T, st.rec),
                         !.err = "validate", !.at = i]
         ELSE [st EXCEPT !.rec[i] = r.v]

\* validate ":=": the value is written, then the record's method is asked
CsvNamedValidator(T, i, st, r) ==
    IF r.err THEN [st EXCEPT !.err = "field", !.at = i]
    ELSE IF /\ ReflectCallValidator([st.rec EXCEPT ![i] = r.v], ValidateData(T[i])).found
            /\ ~ReflectCallValidator([st.rec EXCEPT ![i] = r.v], ValidateData(T[i])).ok
         THEN [st EXCEPT !.rec = StructClearFields("ok", T, st.rec),
                         !.err = "validate", !.at = i]
         ELSE [st EXCEPT !.rec[i] = r.v]

CsvValidated(T, i, st, csvValue) ==
    IF HasValidate(T[i]) /\ ValidateComp(T[i]) = <<":", "=">>
    THEN CsvNamedValidator(T, i, st, ReflectStringToField(T[i], st.rec[i], csvValue))
    ELSE IF /\ HasValidate(T[i])
            /\ ValidateCompareFails(ValidateComp(T[i]), ValidateData(T[i]), csvValue,
                                    TagReq(T[i]))
         THEN [st EXCEPT !.rec = IF ValidateClears(T[i])
                                 THEN StructClearFields("ok", T, st.rec) ELSE st.rec,
                         !.err = "validate", !.at = i]
         ELSE CsvStored(i, st, ReflectStringToField(T[i], st.rec[i], csvValue))

\* a plain field: modulo on the filtered and cut value, setter, validate, store
CsvSetPlain(T, i, st, csvValue) ==
    IF T[i].pos # <<"-">> /\ CsvModuloFails(T[i], csvValue)
    THEN [st EXCEPT !.err = "modulo", !.at = i]
    ELSE CsvValidated(T, i, st,
                      IF LenTrim(Trim(T[i].setter)) > 0 THEN SetterText(T[i], csvValue)
                      ELSE csvValue)

CsvSetObject(T, i, registry, st, csvValue) ==
    IF LenTrim(Trim(T[i].setter)) > 0
    THEN IF UnresolvedInterface(T[i], st.rec[i], registry)
         THEN [st EXCEPT !.err = "interface", !.at = i]
         ELSE [st EXCEPT !.rec[i] = ObjectSetter(T[i], st.rec[i], csvValue)]
    ELSE CsvStored(i, st, ReflectStringToField(T[i], st.rec[i], csvValue))

CsvSetValue(T, i, registry, st, csvValue) ==
    IF IsObjectKind(T[i]) THEN CsvSetObject(T, i, registry, st, csvValue)
    ELSE IF T[i].pos = <<"-">> THEN CsvSetPlain(T, i, st, csvValue)
    ELSE CsvSetPlain(T, i, st,
                     Truncate(TagType(T[i]), SizeRule(T[i]), CsvUnmarshalFilter(T[i], csvValue)))

\* a shortage of tokens reported as an error
CsvPastEndError(st) == [st EXCEPT !.err = "short"]

\* ordinal mode past the last token: the call returns nil at once
CsvPastEnd(st) == [st EXCEPT !.stop = TRUE]

\* a field that takes a token whose prefix an earlier field has claimed
CsvSetPrefixedAgain(T, i, csvElements, registry, st, k) ==
    IF k = 0 THEN st
    ELSE CsvSetValue(T, i, registry, st, PrefixValue(T[i], csvElements[k]))

\* prefix mode: k is the first token with the prefix of the field
CsvSetPrefixed(T, i, csvElements, registry, st, k) ==
    IF k = 0 \/ PrefixKey(T[i]) \in st.prefixProcessedMap THEN st
    ELSE CsvSetValue(T, i, registry,
                     [st EXCEPT !.prefixProcessedMap = @ \cup {PrefixKey(T[i])}],
                     PrefixValue(T[i], csvElements[k]))

\* field i with the parse of its pos tag
CsvSetAt(T, i, csvElements, registry, st, tagPos) ==
    IF ~T[i].canset THEN st
    ELSE IF ~tagPos.ok /\ (T[i].pos # <<"-">> \/ LenTrim(T[i].setter) = 0) THEN st
    ELSE IF tagPos.ok /\ tagPos.n < 0 THEN st
    ELSE IF T[i].pos = <<"-">> THEN CsvSetValue(T, i, registry, st, <<>>)
    ELSE IF LenTrim(Trim(T[i].outprefix)) = 0
         THEN IF tagPos.n > Len(csvElements) - 1
              THEN CsvPastEnd(st)
              ELSE CsvSetValue(T, i, registry, st,
                               CsvBoolLiteral(T[i], csvElements[tagPos.n + 1]))
         ELSE CsvSetPrefixed(T, i, csvElements, registry, st,
                             PrefixToken(T[i], csvElements))

RECURSIVE CsvSetLoop(_, _, _, _, _)
CsvSetLoop(T, i, csvElements, registry, st) ==
    IF i > Len(T) \/ st.err # "" \/ st.stop THEN st
    ELSE CsvSetLoop(T, i + 1, csvElements, registry,
                    CsvSetAt(T, i, csvElements, registry, st, ParseInt32(T[i].pos)))

CsvSetStart(R) ==
    [rec |-> R, err |-> "", at |-> 0, stop |-> FALSE, prefixProcessedMap |-> {}]

\* the call once the payload is split into csvElements
UnmarshalCsvSplit(recv, T, R, csvElements, registry) ==
    IF Len(csvElements) = 0 THEN [CsvSetStart(R) EXCEPT !.err = "zero"]
    ELSE CsvSetLoop(T, 1, csvElements, registry, CsvSetStart(ResetRecord(recv, T, R)))

\* (rec, err, at, stop, prefixProcessedMap) of the call
UnmarshalCSVToStruct(recv, T, R, csvPayload, csvDelimiter, customDelimiterParserFunc, registry) ==
    IF recv = "nil" THEN [CsvSetStart(R) EXCEPT !.err = "nil"]
    ELSE IF LenTrim(csvPayload) = 0 THEN [CsvSetStart(R) EXCEPT !.err = "payload"]
    ELSE IF Len(csvDelimiter) = 0 /\ customDelimiterParserFunc = "nil"
         THEN [CsvSetStart(R) EXCEPT !.err = "delimiter"]
    ELSE IF recv = "nonptr" THEN [CsvSetStart(R) EXCEPT !.err = "nonptr"]
    ELSE IF recv = "nonstruct" THEN [CsvSetStart(R) EXCEPT !.err = "nonstruct"]
    ELSE UnmarshalCsvSplit(recv, T, R,
                           CsvElements(csvPayload, csvDelimiter, customDelimiterParserFunc),
                           registry)

----------------------------------------------------------------------------
(* Struct types, records and payloads of the unmarshal specification       *)

UnmarshalFields ==
    {[NoTags EXCEPT !.pos = <<"0">>, !.def = <<"d">>],
     [NoTags EXCEPT !.pos = <<"1">>, !.tag = <<"k">>],
     [NoTags EXCEPT !.pos = <<"1">>, !.type = <<"a">>, !.size = <<".", ".", "2", "+", "%", "2">>],
     [NoTags EXCEPT !.pos = <<"0">>, !.validate = <<"=", "=", "a">>],
     [NoTags EXCEPT !.pos = <<"1">>, !.validate = <<"=", "=", "a", "|", "|", "b">>],
     [NoTags EXCEPT !.pos = <<"1">>, !.validate = <<"!", "=", "a">>],
     [NoTags EXCEPT !.pos = <<"1">>, !.validate = <<"!", "=", "a", "&", "&", "x">>],
     [NoTags EXCEPT !.pos = <<"0">>, !.kind = "int", !.validate = <<"<", "=", "0">>],
     [NoTags EXCEPT !.pos = <<"0">>, !.kind = "int", !.validate = <<"<", "<", "1">>],
     [NoTags EXCEPT !.pos = <<"1">>, !.kind = "int", !.validate = <<">", "=", "1">>],
     [NoTags EXCEPT !.pos = <<"1">>, !.kind = "int", !.validate = <<">", ">", "0">>,
                    !.def = <<"1">>],
     [NoTags EXCEPT !.pos = <<"1">>, !.validate = <<":", "=">> \o MethodValid],
     [NoTags EXCEPT !.pos = <<"1">>, !.kind = "iface", !.setter = MethodParse],
     [NoTags EXCEPT !.pos = <<"1">>, !.kind = "custom"],
     [NoTags EXCEPT !.pos = <<"0">>, !.outprefix = <<"P", "=">>, !.def = <<"d">>],
     [NoTags EXCEPT !.pos = <<"1">>, !.kind = "int", !.outprefix = <<"p", "=">>],
     [NoTags EXCEPT !.pos = <<"0">>, !.kind = "bool", !.booltrue = <<"a">>,
                    !.boolfalse = <<"x">>],
     [NoTags EXCEPT !.pos = <<"0">>, !.canset = FALSE],
     [NoTags EXCEPT !.pos = <<"0">>, !.kind = "nullstring", !.def = <<"d">>,
                    !.excl = <<"-">>]}

\* a value of the kind that is neither zero nor a default of the model
DirtyVal(d) ==
    CASE d.kind = "string" -> StrVal(<<"z">>)
      [] d.kind = "int" -> IntVal(MaxInt + 1)
      [] d.kind = "bool" -> BoolVal(TRUE)
      [] d.kind = "nullstring" -> NullStr(<<"z">>)
      [] d.kind = "nullbool" -> NullBoolVal(TRUE)
      [] d.kind = "nullint" -> NullInt(MaxInt + 1)
      [] d.kind = "iface" -> [ZeroVal EXCEPT !.valid = TRUE]
      [] OTHER -> ZeroVal

\* the records a caller hands in: a fresh one and one that is in use
UnmarshalRecords(T) ==
    {[i \in 1..Len(T) |-> ZeroVal], [i \in 1..Len(T) |-> DirtyVal(T[i])]}

JsonMember(key, value) ==
    <<"\"">> \o key \o <<"\"", ":", "\"">> \o value \o <<"\"">>

JsonMemberTexts ==
    {JsonMember(<<"A">>, <<"a">>), JsonMember(<<"B">>, <<"1">>),
     JsonMember(<<"k">>, <<"x">>), JsonMember(<<"Z">>, <<"z">>)}

JsonPayloads ==
    {<<>>, <<" ">>, <<"{">>, <<"{", "}">>, <<"{", "\"", "A", "\"", ":", "1", "}">>}
    \cup {<<"{">> \o Join(ms, <<",", " ">>) \o <<"}">> :
            ms \in SeqsUpTo(JsonMemberTexts, MaxTokens)}

CsvTokens == {<<"a">>, <<"x">>, <<"1">>, <<"P", "=", "1">>, <<"p", "=", "a">>}

CsvPayloads(sep) ==
    {<<>>} \cup {Join(ts, sep) : ts \in SeqsUpTo(CsvTokens, MaxTokens)}

Registries(T) == IF \E i \in 1..Len(T) : T[i].kind = "iface" THEN BOOLEAN ELSE {FALSE}

InitUnmarshal ==
    /\ typ \in {Named(ds) : ds \in SeqsUpTo(UnmarshalFields, MaxFields)}
    /\ rec \in UnmarshalRecords(typ)
    /\ pre = rec
    /\ op = "none"
    /\ args = NoArgs
    /\ ret = <<>>
    /\ retb = FALSE
    /\ retn = 0
    /\ err = ""
    /\ emitted = <<>>
    /\ at = 0

\* an unmarshal call: the record is written, the caller sees the error
Unmarshaled(name, a, m) ==
    /\ op = "none"
    /\ \A i \in 1..Len(typ) : Len(m.rec[i].str) <= MaxText
    /\ op' = name
    /\ args' = a
    /\ rec' = m.rec
    /\ err' = m.err
    /\ at' = m.at
    /\ pre' = rec
    /\ UNCHANGED <<typ, ret, retb, retn, emitted>>

\* the fields of the JSON and query-string checks: plain primitive fields,
\* the record {Name string tag:"name"; Age int tag:"age" def:"18"}, bool
\* literals (distinct, equal, and behind an outprefix), and fields excluded
\* by the name tag or the exclusion tag
JsonFields ==
    {[NoTags EXCEPT !.tag = <<"n", "a", "m", "e">>],
     [NoTags EXCEPT !.kind = "int", !.tag = <<"a", "g", "e">>, !.def = <<"1", "8">>],
     [NoTags EXCEPT !.def = <<"d">>],
     [NoTags EXCEPT !.kind = "bool", !.booltrue = <<"Y">>, !.boolfalse = <<"N">>,
                    !.pos = <<"0">>],
     [NoTags EXCEPT !.kind = "bool", !.booltrue = <<"Y">>, !.boolfalse = <<"Y">>,
                    !.pos = <<"1">>],
     [NoTags EXCEPT !.kind = "bool", !.booltrue = <<"Y">>, !.boolfalse = <<"N">>,
                    !.pos = <<"0">>, !.outprefix = <<"P">>],
     [NoTags EXCEPT !.kind = "bool", !.tag = <<" ">>],
     [NoTags EXCEPT !.kind = "int"],
     [NoTags EXCEPT !.kind = "nullstring", !.def = <<"d">>],
     [NoTags EXCEPT !.kind = "nullbool"],
     [NoTags EXCEPT !.kind = "nullint", !.def = <<"1">>],
     [NoTags EXCEPT !.tag = <<"-">>, !.uniqueid = <<"u">>],
     [NoTags EXCEPT !.excl = <<"-">>, !.uniqueid = <<"u">>, !.tag = <<"k">>],
     [NoTags EXCEPT !.uniqueid = <<"U">>]}

IsJsonType(T) == \A i \in 1..Len(T) : [T[i] EXCEPT !.name = <<>>] \in JsonFields

JsonValues(d) ==
    ValuesOf(d) \cup {FieldDefault(d, ZeroVal)}
    \cup (IF d.kind = "string" THEN {StrVal(<<"'">>)} ELSE {})

JsonRecords(T) ==
    {R \in [1..Len(T) -> UNION {JsonValues(T[i]) : i \in 1..Len(T)}] :
        \A i \in 1..Len(T) : R[i] \in JsonValues(T[i])}

\* a payload that carries every key a field of the model can have
JsonAllKeys ==
    <<"{">> \o Join(<<JsonMember(<<"A">>, <<"Y">>), JsonMember(<<"B">>, <<"N">>),
                     JsonMember(<<"n", "a", "m", "e">>, <<"Y">>),
                     JsonMember(<<"a", "g", "e">>, <<"1">>),
                     JsonMember(<<"k">>, <<"1">>), JsonMember(<<"-">>, <<"1">>)>>,
                   <<",">>) \o <<"}">>

\* what a caller passes for a record of these fields: the JSON the record
\* marshals to under the same tag namespaces, and the payload of every key
JsonOwnCalls ==
    {[NoArgs EXCEPT !.payload = MarshalStructToJson("ok", typ, rec, NsName, x).out,
                    !.tagName = NsName, !.excludeTagName = x] : x \in {<<>>, NsExcl}}
    \cup {[NoArgs EXCEPT !.payload = JsonAllKeys, !.tagName = t, !.excludeTagName = x] :
            t \in {NsName, NsNone}, x \in {<<>>, NsExcl}}

JsonCalls ==
    IF IsJsonType(typ) THEN JsonOwnCalls ELSE
    {[NoArgs EXCEPT !.recv = r, !.payload = <<"{", "}">>, !.tagName = NsName] :
        r \in Receivers \ {"ok"}}
    \cup {[NoArgs EXCEPT !.payload = <<"{", "}">>]}
    \cup {[NoArgs EXCEPT !.payload = p, !.tagName = NsName, !.excludeTagName = x,
                         !.registry = g] :
            p \in JsonPayloads, x \in {NsExcl}, g \in Registries(typ)}
    \cup {[NoArgs EXCEPT !.payload = <<"{", "\"", "A", "\"", ":", "1", "}">>,
                         !.tagName = NsName]}

CallUnmarshalJsonToStruct ==
    \E a \in JsonCalls :
        Unmarshaled("UnmarshalJsonToStruct", a,
                    UnmarshalJsonToStruct(a.recv, typ, rec, a.payload, a.tagName,
                                          a.excludeTagName, a.registry))

\* fields with a size or range rule: size "4" on every kind filter and on
\* an unfiltered field, sizes with a modulo, and ranges on a numeric field
SizedFields ==
    {[NoTags EXCEPT !.pos = <<"0">>, !.size = <<"4">>],
     [NoTags EXCEPT !.pos = <<"0">>, !.size = <<"4">>, !.type = <<"a">>],
     [NoTags EXCEPT !.pos = <<"0">>, !.size = <<"4">>, !.type = <<"n">>],
     [NoTags EXCEPT !.pos = <<"0">>, !.size = <<"4">>, !.type = <<"A", "N">>],
     [NoTags EXCEPT !.pos = <<"0">>, !.size = <<"4">>, !.type = <<"a", "n", "s">>],
     [NoTags EXCEPT !.pos = <<"0">>, !.size = <<"4">>, !.type = <<"h">>],
     [NoTags EXCEPT !.pos = <<"0">>, !.size = <<"4">>, !.type = <<"b", "6", "4">>],
     [NoTags EXCEPT !.pos = <<"0">>, !.size = <<"4">>, !.type = <<"r", "e", "g", "e", "x">>,
                    !.regex = <<"[", "0", "-", "9", "]", "+">>],
     [NoTags EXCEPT !.pos = <<"1">>, !.size = <<"+", "%", "4">>, !.type = <<"a">>],
     [NoTags EXCEPT !.pos = <<"1">>, !.size = <<"4", "+", "%", "2">>, !.type = <<"a">>],
     [NoTags EXCEPT !.pos = <<"0">>, !.size = <<".", ".", "4", "+", "%", "4">>,
                    !.type = <<"a", "n">>, !.def = <<"a", "b", "c", "d", "e", "f">>],
     [NoTags EXCEPT !.pos = <<"1">>, !.size = <<"+", "%", "4">>, !.type = <<"a">>,
                    !.req = StrTrue],
     [NoTags EXCEPT !.pos = <<"1">>, !.range = <<"2", ".", ".", "3">>, !.type = <<"n">>],
     [NoTags EXCEPT !.pos = <<"0">>, !.range = <<"2", ".", ".", "3">>, !.type = <<"n">>,
                    !.req = StrTrue]}

IsSized(T) == \A i \in 1..Len(T) : [T[i] EXCEPT !.name = <<>>] \in SizedFields

\* the texts a sized field can hold and a sized payload can carry
SizedValues(d) ==
    IF Len(d.range) > 0
    THEN {StrVal(<<"0">>), StrVal(<<"1">>), StrVal(<<"7">>)}
    ELSE {StrVal(<<>>), StrVal(<<"a", "b">>), StrVal(<<"a", "b", "c", "d", "e", "f">>)}

SizedRecords(T) ==
    {R \in [1..Len(T) -> UNION {SizedValues(T[i]) : i \in 1..Len(T)}] :
        \A i \in 1..Len(T) : R[i] \in SizedValues(T[i])}

SizedTokens == {<<"a", "b">>, <<"a", "b", "c", "d", "e", "f">>, <<"7">>}

\* rows that carry the bool literals, bare and behind the prefix
LiteralRows ==
    {<<"Y", ",", "N">>, <<"N", ",", "Y">>, <<"P", "Y">>, <<"x", ",", "P", "N">>}

\* fields of a CSV row with a validate expression of each kind (comparisons
\* and the named validators Valid and Fail), and two fields of which one's
\* outprefix is the beginning of the other's
RowFields ==
    {[NoTags EXCEPT !.pos = <<"0">>, !.validate = <<"=", "=", "b">>],
     [NoTags EXCEPT !.pos = <<"1">>, !.validate = <<"!", "=", "b">>],
     [NoTags EXCEPT !.pos = <<"0">>, !.validate = <<"<", "<", "0">>],
     [NoTags EXCEPT !.pos = <<"1">>, !.validate = <<">", "=", "1">>],
     [NoTags EXCEPT !.pos = <<"1">>, !.validate = <<":", "=">> \o MethodFail],
     [NoTags EXCEPT !.pos = <<"0">>, !.validate = <<":", "=">> \o MethodValid],
     [NoTags EXCEPT !.pos = <<"0">>, !.outprefix = <<"P">>],
     [NoTags EXCEPT !.pos = <<"1">>, !.outprefix = <<"P", "=">>]}

IsRow(T) == \A i \in 1..Len(T) : [T[i] EXCEPT !.name = <<>>] \in RowFields

RowRecords(T) == [1..Len(T) -> {StrVal(<<>>), StrVal(<<"b">>)}]

\* the tokens of a row: a blank one, a text, the text Valid refuses, a number
\* behind the longer prefix
RowTokens == {<<>>, <<"b">>, <<"x">>, <<"P", "=", "1">>}

CsvCalls ==
    IF IsRow(typ)
    THEN {[NoArgs EXCEPT !.payload = Join(ts, <<",">>), !.csvDelimiter = <<",">>] :
             ts \in SeqsUpTo(RowTokens, MaxTokens)}
    ELSE IF IsSized(typ)
    THEN {[NoArgs EXCEPT !.recv = r, !.payload = <<"a", "b">>, !.csvDelimiter = <<",">>] :
             r \in Receivers \ {"ok"}}
         \cup {[NoArgs EXCEPT !.payload = Join(ts, <<",">>), !.csvDelimiter = <<",">>] :
                 ts \in SeqsUpTo(SizedTokens, MaxTokens)}
    ELSE IF IsJsonType(typ)
    THEN {[NoArgs EXCEPT !.payload = p, !.csvDelimiter = <<",">>] : p \in LiteralRows}
    ELSE
    {[NoArgs EXCEPT !.recv = r, !.payload = <<"a">>, !.csvDelimiter = <<",">>] :
        r \in Receivers \ {"ok"}}
    \cup {[NoArgs EXCEPT !.payload = <<"a", ";", "x">>, !.customDelimiterParserFunc = f] :
            f \in {"nil", "semicolon", "empty"}}
    \cup {[NoArgs EXCEPT !.payload = p, !.csvDelimiter = <<",">>, !.registry = g] :
            p \in CsvPayloads(<<",">>), g \in Registries(typ)}

CallUnmarshalCSVToStruct ==
    \E a \in CsvCalls :
        Unmarshaled("UnmarshalCSVToStruct", a,
                    UnmarshalCSVToStruct(a.recv, typ, rec, a.payload, a.csvDelimiter,
                                         a.customDelimiterParserFunc, a.registry))

NextUnmarshal ==
    \/ Continue
    \/ CallUnmarshalJsonToStruct
    \/ CallUnmarshalCSVToStruct

SpecUnmarshal == InitUnmarshal /\ [][NextUnmarshal]_vars

----------------------------------------------------------------------------
(* The structural mutators called on their own                             *)

MutatorFields ==
    {[NoTags EXCEPT !.def = <<"d">>],
     [NoTags EXCEPT !.req = StrTrue],
     [NoTags EXCEPT !.kind = "bool", !.def = StrTrue],
     [NoTags EXCEPT !.kind = "int", !.def = <<"1">>],
     [NoTags EXCEPT !.kind = "int", !.def = <<"E", "1">>, !.setter = MethodParse],
     [NoTags EXCEPT !.kind = "nullstring", !.def = <<"d">>],
     [NoTags EXCEPT !.kind = "nullbool", !.def = StrTrue],
     [NoTags EXCEPT !.kind = "nullbool", !.def = StrFalse, !.req = StrTrue],
     [NoTags EXCEPT !.kind = "nullint", !.def = <<"1">>],
     [NoTags EXCEPT !.kind = "iface"],
     [NoTags EXCEPT !.canset = FALSE, !.def = <<"d">>]}

\* the values of a field, the one its default gives among them
MutatorValues(d) ==
    ValuesOf(d) \cup {FieldDefault(d, ZeroVal)}
    \cup (IF d.kind = "string" THEN {StrVal(<<" ">>)} ELSE {})

MutatorRecords(T) ==
    {R \in [1..Len(T) -> UNION {MutatorValues(T[i]) : i \in 1..Len(T)}] :
        \A i \in 1..Len(T) : R[i] \in MutatorValues(T[i])}

InitMutators ==
    /\ typ \in {Named(ds) : ds \in SeqsUpTo(MutatorFields, MaxFields)}
    /\ rec \in MutatorRecords(typ)
    /\ pre = rec
    /\ op = "none"
    /\ args = NoArgs
    /\ ret = <<>>
    /\ retb = FALSE
    /\ retn = 0
    /\ err = ""
    /\ emitted = <<>>
    /\ at = 0

\* a mutator call: (record after the call, bool returned, int returned)
Mutated(name, r, R, b, n) ==
    /\ op = "none"
    /\ op' = name
    /\ args' = [NoArgs EXCEPT !.recv = r]
    /\ rec' = R
    /\ retb' = b
    /\ retn' = n
    /\ pre' = rec
    /\ UNCHANGED <<typ, ret, err, emitted, at>>

CallStructClearFields ==
    \E r \in Receivers :
        Mutated("StructClearFields", r, StructClearFields(r, typ, rec), FALSE, 0)

CallSetStructFieldDefaultValues ==
    \E r \in Receivers :
        Mutated("SetStructFieldDefaultValues", r,
                SetStructFieldDefaultValues(r, typ, rec).rec,
                SetStructFieldDefaultValues(r, typ, rec).ret, 0)

CallIsStructFieldSet ==
    \E r \in Receivers :
        Mutated("IsStructFieldSet", r, rec, IsStructFieldSet(r, typ, rec), 0)

CallStructNonDefaultRequiredFieldsCount ==
    \E r \in Receivers :
        Mutated("StructNonDefaultRequiredFieldsCount", r, rec, FALSE,
                StructNonDefaultRequiredFieldsCount(r, typ, rec))

NextMutators ==
    \/ Continue
    \/ CallStructClearFields
    \/ CallSetStructFieldDefaultValues
    \/ CallIsStructFieldSet
    \/ CallStructNonDefaultRequiredFieldsCount

SpecMutators == InitMutators /\ [][NextMutators]_vars

----------------------------------------------------------------------------
(* The CSV operations on records with size and range rules                 *)

InitSized ==
    /\ typ \in {Named(ds) : ds \in SeqsUpTo(SizedFields, MaxFields)}
    /\ rec \in SizedRecords(typ)
    /\ pre = rec
    /\ op = "none"
    /\ args = NoArgs
    /\ ret = <<>>
    /\ retb = FALSE
    /\ retn = 0
    /\ err = ""
    /\ emitted = <<>>
    /\ at = 0

NextSized ==
    \/ Continue
    \/ CallMarshalStructToCSV
    \/ CallUnmarshalCSVToStruct

SpecSized == InitSized /\ [][NextSized]_vars

----------------------------------------------------------------------------
(* The CSV operations on rows with validate expressions and prefixes       *)

InitRows ==
    /\ typ \in {Named(ds) : ds \in SeqsUpTo(RowFields, MaxFields)}
    /\ rec \in RowRecords(typ)
    /\ pre = rec
    /\ op = "none"
    /\ args = NoArgs
    /\ ret = <<>>
    /\ retb = FALSE
    /\ retn = 0
    /\ err = ""
    /\ emitted = <<>>
    /\ at = 0

NextRows ==
    \/ Continue
    \/ CallMarshalStructToCSV
    \/ CallUnmarshalCSVToStruct

SpecRows == InitRows /\ [][NextRows]_vars

----------------------------------------------------------------------------
(* The JSON and query-string operations on one record                      *)

InitJson ==
    /\ typ \in {Named(ds) : ds \in SeqsUpTo(JsonFields, MaxFields)}
    /\ rec \in JsonRecords(typ)
    /\ pre = rec
    /\ op = "none"
    /\ args = NoArgs
    /\ ret = <<>>
    /\ retb = FALSE
    /\ retn = 0
    /\ err = ""
    /\ emitted = <<>>
    /\ at = 0

NextJson ==
    \/ Continue
    \/ CallMarshalStructToQueryParams
    \/ CallMarshalStructToJson
    \/ CallUnmarshalJsonToStruct
    \/ CallUnmarshalCSVToStruct

SpecJson == InitJson /\ [][NextJson]_vars

----------------------------------------------------------------------------
(* Properties of the marshal operations                                    *)

RecordMarshalOps ==
    {"MarshalStructToQueryParams", "MarshalStructToJson", "MarshalStructToCSV"}

\* field i takes part in the walk of the returned call
Participates(i) ==
    IF op = "MarshalStructToCSV"
    THEN /\ typ[i].canset
         /\ ParseInt32(typ[i].pos).ok
         /\ ParseInt32(typ[i].pos).n \in 0..(Len(typ) - 1)
    ELSE ~IsExcluded(typ[i], args.tagName, args.excludeTagName)

\* the text of field i before any tag policy other than the render flags
Rendered(i) ==
    ReflectValueToString(ApplyGetter(typ[i], [kind |-> typ[i].kind, v |-> pre[i]]),
                         typ[i].booltrue, typ[i].boolfalse, ParseBool(typ[i].skipblank).b,
                         ParseBool(typ[i].skipzero).b, typ[i].timeformat,
                         ParseBool(typ[i].zeroblank).b)

\* field i produces a non-skipped value
Produces(i) ==
    /\ ~Rendered(i).err
    /\ ~Rendered(i).skip
    /\ ~(IsUnknownEnum(typ[i], pre[i], Rendered(i).buf) /\ Len(typ[i].def) = 0)

\* the participating fields of the unique group of field i
Group(i) ==
    {j \in 1..Len(typ) : /\ Participates(j)
                         /\ Len(Trim(typ[j].uniqueid)) > 0
                         /\ ToLower(Trim(typ[j].uniqueid)) = ToLower(Trim(typ[i].uniqueid))}

Appears(j) == \E k \in 1..Len(emitted) : emitted[k] = j

FirstOf(S) == CHOOSE j \in S : \A k \in S : j <= k

\* another field's value went into the slot of field j
SlotTaken(j) ==
    \E k \in 1..Len(typ) :
        k # j /\ Appears(k) /\ ParseInt32(typ[k].pos).n = ParseInt32(typ[j].pos).n

\* the walk of the returned call went through every field
WalkCompleted ==
    \/ op \in {"MarshalStructToQueryParams", "MarshalStructToJson"} /\ err \in {"", "blank"}
    \/ op = "MarshalStructToCSV" /\ err = "" /\ ret # <<>>

\* C1: after a marshal call that walked the record, of the participating
\* fields of one unique group at most one appears in the output, it is the
\* first in declaration order that produces a non-skipped value, and that
\* first one does appear (in CSV unless another field took its slot)
UniqueGroupExclusivity ==
    WalkCompleted =>
        \A i \in 1..Len(typ) :
            (Participates(i) /\ Len(Trim(typ[i].uniqueid)) > 0) =>
                /\ Cardinality({j \in Group(i) : Appears(j)}) <= 1
                /\ \A j \in Group(i) :
                      Appears(j) => /\ Produces(j)
                                    /\ j = FirstOf({k \in Group(i) : Produces(k)})
                /\ ({k \in Group(i) : Produces(k)} # {}) =>
                      \/ Appears(FirstOf({k \in Group(i) : Produces(k)}))
                      \/ /\ op = "MarshalStructToCSV"
                         /\ SlotTaken(FirstOf({k \in Group(i) : Produces(k)}))

\* a call where the first field of a group is skipped and the second appears
UniqueGroupSecondWins ==
    /\ op \in RecordMarshalOps
    /\ err = ""
    /\ Len(typ) = 2
    /\ Group(1) = {1, 2}
    /\ ~Produces(1)
    /\ emitted = <<2>>

\* C3: a marshal call that returns an error returns the empty string
MarshalErrorNoOutput ==
    (op # "none" /\ err # "") => ret = <<>>

\* a CSV call that fails at its second field after the first had a value
MarshalFailsAfterFirstField ==
    /\ op = "MarshalStructToCSV"
    /\ err \in {"minlength", "required", "validate"}
    /\ Len(typ) = 2
    /\ Produces(1)
    /\ Len(pre[1].str) > 0
    /\ typ[1].pos = <<"0">>
    /\ typ[1].type = <<>> /\ typ[1].req = <<>> /\ typ[1].validate = <<>>
    /\ ret = <<>>

\* C5: no marshal call of a record returns the empty string without an error
MarshalNeverBlankSuccess ==
    (op \in RecordMarshalOps) => ~(ret = <<>> /\ err = "")

\* the key=value pair of field i in a query string
QueryPair(i) ==
    OutputKey(typ[i], args.tagName) \o <<"=">>

\* C6: a successful query string has one key=value pair per appended field,
\* in declaration order, separated by '&', with no '&' at either end; a call
\* that appended no field returns ("", error)
QueryStringFraming ==
    (op = "MarshalStructToQueryParams") =>
        /\ (err = "" /\ ret # <<>>) =>
              /\ ret[1] # "&"
              /\ ret[Len(ret)] # "&"
              /\ Len(Split(ret, <<"&">>)) = Len(emitted)
              /\ \A k \in 1..Len(emitted) :
                    /\ k < Len(emitted) => emitted[k] < emitted[k + 1]
                    /\ Left(Split(ret, <<"&">>)[k], Len(QueryPair(emitted[k])))
                          = QueryPair(emitted[k])
        /\ (emitted = <<>> /\ args.recv = "ok") => (ret = <<>> /\ err # "")


----------------------------------------------------------------------------
(* Properties of the unmarshal operations                                  *)

UnmarshalOps == {"UnmarshalJsonToStruct", "UnmarshalCSVToStruct"}

\* the errors of the checks made before the record is reset
PreconditionErrors ==
    {"nil", "payload", "tagname", "nonptr", "nonstruct", "malformed", "noelements",
     "delimiter", "zero"}

\* the errors raised while fields are written
FieldErrors == {"modulo", "validate", "field", "interface"}

\* the value a settable field has after clear and defaults
PostDefault(i) == FieldDefault(typ[i], ZeroVal)

\* C2: an unmarshal call that fails after it has started to write fields
\* leaves every settable field at its zero value
UnmarshalFailureResets ==
    (op \in UnmarshalOps /\ err \in FieldErrors) =>
        \A i \in 1..Len(typ) : typ[i].canset => rec[i] = ZeroVal

\* C4: an unmarshal call that fails a check made before any field is
\* written leaves every field as it was before the call
PreMutationErrorsKeepRecord ==
    (op \in UnmarshalOps /\ err \in PreconditionErrors) => rec = pre

\* a malformed JSON payload handed in with a record that is in use
MalformedJsonOnUsedRecord ==
    /\ op = "UnmarshalJsonToStruct"
    /\ err = "malformed"
    /\ args.recv = "ok"
    /\ \E i \in 1..Len(typ) : typ[i].canset /\ pre[i] # ZeroVal /\ pre[i] # PostDefault(i)
    /\ rec = pre

\* the members of the payload of the returned JSON call
PayloadMap == JsonUnmarshal(args.payload)

\* field i is looked up in the payload under its key and the key is there
KeyPresent(i) ==
    /\ Trim(TagGet(typ[i], args.tagName)) # <<"-">>
    /\ ~(LenTrim(args.excludeTagName) > 0
         /\ Trim(TagGet(typ[i], args.excludeTagName)) = <<"-">>)
    /\ \E k \in 1..Len(PayloadMap.keys) :
          PayloadMap.keys[k] = (IF LenTrim(TagGet(typ[i], args.tagName)) = 0
                                THEN typ[i].name ELSE Trim(TagGet(typ[i], args.tagName)))

\* a string field that takes the text of its key as it is
PlainString(i) ==
    /\ typ[i].kind = "string"
    /\ typ[i].setter = <<>> /\ typ[i].booltrue = <<>> /\ typ[i].boolfalse = <<>>
    /\ typ[i].type = <<>> /\ typ[i].validate = <<>>

\* C7: after a successful UnmarshalJsonToStruct every settable field whose
\* key is absent from the payload holds its default, or zero without one,
\* whatever the record held before; a field holds a payload value only from
\* its own key, so keys the record does not declare set nothing; fields
\* that are not settable keep their value
FromJsonOrdering ==
    (op = "UnmarshalJsonToStruct" /\ err = "") =>
        \A i \in 1..Len(typ) :
            /\ ~typ[i].canset => rec[i] = pre[i]
            /\ (typ[i].canset /\ ~KeyPresent(i)) =>
                  /\ rec[i] = PostDefault(i)
                  /\ (typ[i].kind = "string" /\ Len(typ[i].def) > 0) =>
                        rec[i] = StrVal(typ[i].def)
                  /\ Len(typ[i].def) = 0 => rec[i] = ZeroVal
            /\ (typ[i].canset /\ KeyPresent(i) /\ PlainString(i)) =>
                  \E k \in 1..Len(PayloadMap.keys) :
                      /\ PayloadMap.keys[k] \in {typ[i].name, Trim(TagGet(typ[i], args.tagName))}
                      /\ rec[i] = StrVal(JsonFromEscaped(PayloadMap.raws[k]))

\* a successful call on a record in use, with a key the record does not
\* declare and a field with a default whose key is absent
FromJsonAbsentKeyDefault ==
    /\ op = "UnmarshalJsonToStruct"
    /\ err = ""
    /\ \E k \in 1..Len(PayloadMap.keys) : PayloadMap.keys[k] = <<"Z">>
    /\ \E i \in 1..Len(typ) :
          /\ typ[i].canset /\ ~KeyPresent(i) /\ Len(typ[i].def) > 0
          /\ pre[i] # PostDefault(i) /\ pre[i] # ZeroVal
          /\ rec[i] = StrVal(typ[i].def)
    /\ \E i \in 1..Len(typ) : typ[i].canset /\ KeyPresent(i)

\* the tokens of the payload of the returned CSV call
Tokens == CsvElements(args.payload, args.csvDelimiter, args.customDelimiterParserFunc)

\* field i is settable and declares a position
Positioned(i) ==
    typ[i].canset /\ ParseInt32(typ[i].pos).ok /\ ParseInt32(typ[i].pos).n >= 0

\* field i is read by ordinal position / by prefix
OrdinalField(i) == Positioned(i) /\ LenTrim(typ[i].outprefix) = 0

PrefixField(i) == Positioned(i) /\ LenTrim(typ[i].outprefix) > 0

\* the ordinal fields whose position is at or beyond the token count
PastEnd == {i \in 1..Len(typ) : OrdinalField(i) /\ ParseInt32(typ[i].pos).n >= Len(Tokens)}

\* a CSV call that got past its preconditions, with fewer tokens than the
\* ordinal positions the fields declare
ShortCsv ==
    /\ op = "UnmarshalCSVToStruct"
    /\ err \notin PreconditionErrors
    /\ PastEnd # {}

\* C8 as stated: a CSV call with fewer tokens than declared positions
\* returns no error and leaves every field whose pos is at or beyond the
\* token count at its post-clear, post-default value
OrdinalTruncationNoError ==
    ShortCsv =>
        /\ err = ""
        /\ \A i \in 1..Len(typ) :
              (Positioned(i) /\ ParseInt32(typ[i].pos).n >= Len(Tokens)) =>
                  rec[i] = PostDefault(i)

\* C8: a CSV call with fewer tokens than declared ordinal positions does not
\* fail for the shortage: an error comes from a field declared before the
\* first ordinal field past the tokens; and when the call returns nil every
\* ordinal field past the tokens holds its post-clear, post-default value
OrdinalTruncation ==
    ShortCsv =>
        /\ err # "" => (at >= 1 /\ \A i \in PastEnd : at < i)
        /\ err = "" => \A i \in PastEnd : rec[i] = PostDefault(i)

\* a short payload on a record in use: the first field takes the token and
\* the second, past the tokens and with a default, is left at it
OrdinalTruncationHappens ==
    /\ ShortCsv
    /\ err = ""
    /\ Len(typ) = 2
    /\ PastEnd = {2}
    /\ OrdinalField(1)
    /\ rec[1] # PostDefault(1)
    /\ pre[2] # PostDefault(2)
    /\ PostDefault(2) # ZeroVal

\* token k carries the prefix of field i
Carries(k, i) ==
    /\ Len(Tokens[k]) >= Len(Trim(typ[i].outprefix))
    /\ ToLower(SubSeq(Tokens[k], 1, Len(Trim(typ[i].outprefix))))
          = ToLower(Trim(typ[i].outprefix))

\* token k without the prefix of field i
Stripped(k, i) == SubSeq(Tokens[k], Len(Trim(typ[i].outprefix)) + 1, Len(Tokens[k]))

\* the walk of the returned call came to field i
Reached(i) == \A j \in PastEnd : i < j

\* an earlier prefix field declares the prefix of field i
PrefixDeclaredBefore(i) ==
    \E j \in 1..(i - 1) :
        PrefixField(j) /\ ToLower(Trim(typ[j].outprefix)) = ToLower(Trim(typ[i].outprefix))

\* a prefix field without kind filter, setter, literals or validate
PlainPrefixField(i) ==
    /\ PrefixField(i)
    /\ typ[i].kind \in {"string", "int"}
    /\ typ[i].setter = <<>> /\ typ[i].booltrue = <<>> /\ typ[i].boolfalse = <<>>
    /\ typ[i].type = <<>> /\ typ[i].validate = <<>>

----------------------------------------------------------------------------
(* Properties of the structural mutators                                   *)

\* the value of field i is the one its def tag declares
EqualsDeclaredDefault(i) ==
    /\ Len(typ[i].def) > 0
    /\ CASE typ[i].kind = "string" -> rec[i].str = typ[i].def
         [] typ[i].kind = "bool" -> rec[i].flag = ParseBool(typ[i].def).b
         [] typ[i].kind = "int" -> Itoa(rec[i].num) = typ[i].def
         [] typ[i].kind = "nullstring" -> rec[i].valid /\ rec[i].str = typ[i].def
         [] typ[i].kind = "nullbool" ->
                rec[i].valid /\ rec[i].flag = ParseBool(typ[i].def).b
         [] typ[i].kind = "nullint" -> rec[i].valid /\ Itoa(rec[i].num) = typ[i].def
         [] OTHER -> FALSE

\* C10: IsStructFieldSet returns true exactly when some settable field
\* differs from its zero value and from its declared default
IsStructFieldSetExact ==
    (op = "IsStructFieldSet" /\ args.recv = "ok") =>
        (retb <=> \E i \in 1..Len(typ) :
                      typ[i].canset /\ rec[i] # ZeroVal /\ ~EqualsDeclaredDefault(i))

\* some settable field declares a default
DeclaresDefault == \E i \in 1..Len(typ) : typ[i].canset /\ Len(typ[i].def) > 0

\* C11: SetStructFieldDefaultValues returns true exactly when the record
\* declares at least one default, and false for a valid record without one
DefaultsReturnDeclared ==
    (op = "SetStructFieldDefaultValues" /\ args.recv = "ok") =>
        (retb <=> DeclaresDefault)

\* every settable field of the record R is at its zero value
Cleared(R) == \A i \in 1..Len(typ) : typ[i].canset => R[i] = ZeroVal

\* C12: on a cleared record, applying the defaults a second time leaves the
\* record as the first application left it
DefaultsIdempotent ==
    (op = "SetStructFieldDefaultValues" /\ Cleared(pre)) =>
        SetStructFieldDefaultValues(args.recv, typ, rec).rec = rec

\* defaults were applied to a cleared record and wrote into it
DefaultsWrittenOnCleared ==
    /\ op = "SetStructFieldDefaultValues"
    /\ Cleared(pre)
    /\ \E i \in 1..Len(typ) : rec[i] # pre[i] /\ typ[i].kind = "string"
    /\ \E i \in 1..Len(typ) : rec[i] # pre[i] /\ typ[i].kind = "int"

\* the value is what the defaults step takes for unset: a blank string, 0,
\* a Null wrapper that is not valid
HoldsZero(d, v) ==
    CASE d.kind = "string" -> LenTrim(v.str) = 0
      [] d.kind = "int" -> v.num = 0
      [] d.kind \in {"nullstring", "nullbool", "nullint"} -> ~v.valid
      [] OTHER -> v = ZeroVal

----------------------------------------------------------------------------
(* Properties of the size, modulo and range rules                          *)

CsvMarshalCall == op = "MarshalStructToCSV" /\ args.recv = "ok"

\* field i is one the marshal walk stores: settable, with a pos inside the row
Processed(i) ==
    Positioned(i) /\ ParseInt32(typ[i].pos).n <= Len(typ) - 1

KindFiltered(i) == TagType(typ[i]) \in FilteredTypes

\* the value of field i after the kind filter and default substitution, and
\* the same after the cut to the maximum size
FilteredValue(i) ==
    WithDefault(typ[i], CsvMarshalFilter(typ[i], TagType(typ[i]), rec[i].str))

FinalValue(i) == CsvMarshalTruncate(typ[i], TagType(typ[i]), FilteredValue(i))

\* C14: a field with size "4" that holds "ab" marshals to CSV without error,
\* whatever its kind filter
SizeWithinMaxNoError ==
    (/\ CsvMarshalCall
     /\ \A i \in 1..Len(typ) : typ[i].size = <<"4">> /\ rec[i].str = <<"a", "b">>)
        => err = ""

HasModulo(i) == KindFiltered(i) /\ Processed(i) /\ SizeRule(typ[i]).modulo > 0

OffModulo(i) == HasModulo(i) /\ Len(FinalValue(i)) % SizeRule(typ[i]).modulo # 0

\* C15 as stated: when every field is kind-filtered with a modulo, the CSV
\* marshal fails exactly when some final length is not a multiple of it
ModuloExactly ==
    (CsvMarshalCall /\ \A i \in 1..Len(typ) : HasModulo(i)) =>
        (err # "" <=> \E i \in 1..Len(typ) : OffModulo(i))

\* C15: a final length that is not a multiple of the modulo makes the CSV
\* marshal fail with an empty string, and the modulo error is raised only
\* for such a field
ModuloOnMarshal ==
    CsvMarshalCall =>
        /\ (\E i \in 1..Len(typ) : OffModulo(i)) => (err # "" /\ ret = <<>>)
        /\ err = "modulo" => \E i \in 1..Len(typ) : OffModulo(i)

\* modulo 4 and a final value of 6 characters
ModuloFourOnSix ==
    /\ CsvMarshalCall
    /\ err = "modulo"
    /\ \E i \in 1..Len(typ) :
          /\ OffModulo(i) /\ SizeRule(typ[i]).modulo = 4 /\ Len(FinalValue(i)) = 6
    /\ \E i \in 1..Len(typ) :
          /\ HasModulo(i) /\ ~OffModulo(i) /\ Len(FilteredValue(i)) = 6

CsvUnmarshalCall == op = "UnmarshalCSVToStruct" /\ err \notin PreconditionErrors

\* the token of an ordinal field, filtered and cut as the unmarshal does
TokenValue(i) ==
    Truncate(TagType(typ[i]), SizeRule(typ[i]),
             CsvUnmarshalFilter(typ[i], Tokens[ParseInt32(typ[i].pos).n + 1]))

HasToken(i) == OrdinalField(i) /\ ParseInt32(typ[i].pos).n < Len(Tokens)

\* an unmarshal error is a modulo violation of the cut token of field "at"
OnlyModuloOnUnmarshal ==
    (CsvUnmarshalCall /\ IsSized(typ) /\ err # "") =>
        /\ err = "modulo"
        /\ at \in 1..Len(typ)
        /\ HasToken(at) /\ KindFiltered(at) /\ SizeRule(typ[at]).modulo > 0
        /\ Len(TokenValue(at)) % SizeRule(typ[at]).modulo # 0

\* a stored token is the filtered token cut to the maximum size
CutOnUnmarshal ==
    (CsvUnmarshalCall /\ IsSized(typ) /\ err = "") =>
        \A i \in 1..Len(typ) :
            (HasToken(i) /\ \A j \in 1..i : HasToken(j)) => rec[i].str = TokenValue(i)

BelowMinimum(i) ==
    /\ KindFiltered(i) /\ Processed(i)
    /\ SizeRule(typ[i]).min > 0
    /\ Len(FilteredValue(i)) < SizeRule(typ[i]).min

OutOfRange(i) ==
    /\ TagType(typ[i]) = <<"n">> /\ Processed(i)
    /\ ParseInt32(FinalValue(i)).ok
    /\ \/ RangeRule(typ[i]).min > 0 /\ ParseInt32(FinalValue(i)).n < RangeRule(typ[i]).min
       \/ RangeRule(typ[i]).max > 0 /\ ParseInt32(FinalValue(i)).n > RangeRule(typ[i]).max

\* the values the marshal rules let through although they are below the
\* minimum: a blank value, and a 0 on a field that is not required
Exempt(i) ==
    \/ BelowMinimum(i) /\ Len(FilteredValue(i)) = 0
    \/ /\ OutOfRange(i)
       /\ ParseInt32(FinalValue(i)).n = 0
       /\ TagReq(typ[i]) # StrTrue
       /\ ~(RangeRule(typ[i]).max > 0 /\ 0 > RangeRule(typ[i]).max)

\* C16 as stated: unmarshal fails on size only for the modulo of the cut
\* value, and marshal rejects every below-minimum size and out-of-range number
AsymmetricStrictnessAll ==
    /\ OnlyModuloOnUnmarshal
    /\ CutOnUnmarshal
    /\ CsvMarshalCall =>
          \A i \in 1..Len(typ) : (BelowMinimum(i) \/ OutOfRange(i)) => err # ""

\* C16: unmarshal fails on size only for the modulo of the cut value and
\* never for a short value or a number out of range; marshal rejects a
\* below-minimum size and an out-of-range number, a blank value and a 0 on
\* a field that is not required excepted
AsymmetricStrictness ==
    /\ OnlyModuloOnUnmarshal
    /\ CutOnUnmarshal
    /\ CsvMarshalCall =>
          \A i \in 1..Len(typ) :
              ((BelowMinimum(i) \/ OutOfRange(i)) /\ ~Exempt(i)) => err # ""

\* an unmarshal that stored a token shorter than the minimum and a number
\* above the range, both of which the marshal of the same type refuses
ShortAndOutOfRangeStored ==
    /\ CsvUnmarshalCall /\ err = "" /\ Len(typ) = 2
    /\ typ[1].size = <<"4">> /\ KindFiltered(1) /\ rec[1].str = <<"a", "b">>
    /\ Len(typ[2].range) > 0 /\ rec[2].str = <<"7">>


----------------------------------------------------------------------------
(* Properties of the JSON operations on one record                         *)

\* the record {Name string tag:"name"; Age int tag:"age" def:"18"} with
\* Name blank and Age 0
NameAgeUnset ==
    /\ Len(typ) = 2
    /\ typ[1].kind = "string" /\ typ[1].tag = <<"n", "a", "m", "e">>
    /\ typ[2].kind = "int" /\ typ[2].tag = <<"a", "g", "e">> /\ typ[2].def = <<"1", "8">>
    /\ rec[1] = ZeroVal /\ rec[2] = ZeroVal

\* C17: the record with Name blank and Age unset marshals to exactly
\* {"name":"","age":"18"} without error
DefaultSubstitutionExample ==
    (/\ op = "MarshalStructToJson" /\ args.recv = "ok" /\ args.tagName = NsName
     /\ NameAgeUnset)
        => /\ err = ""
           /\ ret = <<"{">> \o JsonMember(<<"n", "a", "m", "e">>, <<>>) \o <<",">>
                    \o JsonMember(<<"a", "g", "e">>, <<"1", "8">>) \o <<"}">>

\* every field of the type is a settable primitive that takes part under
\* its own key
PlainPrimitive ==
    \A i \in 1..Len(typ) :
        /\ typ[i].canset
        /\ typ[i].kind \in {"string", "bool", "int", "nullstring", "nullbool", "nullint"}
        /\ Len(typ[i].uniqueid) = 0
        /\ Trim(typ[i].tag) # <<"-">> /\ Trim(typ[i].excl) # <<"-">>

DefaultsApplied(R) == SetStructFieldDefaultValues("ok", typ, R).rec = R

\* the call unmarshals the JSON the record it is given marshals to
OwnJson ==
    /\ op = "UnmarshalJsonToStruct" /\ args.recv = "ok"
    /\ MarshalStructToJson("ok", typ, pre, args.tagName, args.excludeTagName).err = ""
    /\ args.payload =
          MarshalStructToJson("ok", typ, pre, args.tagName, args.excludeTagName).out

\* C18: for a record of settable primitive fields with its defaults applied,
\* unmarshalling the JSON it marshals to succeeds and gives the record back
JsonRoundTrip ==
    (OwnJson /\ PlainPrimitive /\ DefaultsApplied(pre)) => (err = "" /\ rec = pre)

\* a settable bool field that declares the true literal "Y" and the false
\* literal "N" or, once more, "Y"
LiteralField(i) ==
    /\ typ[i].canset /\ typ[i].kind = "bool"
    /\ typ[i].booltrue = <<"Y">> /\ typ[i].boolfalse \in {<<"N">>, <<"Y">>}

\* the text the returned call read for field i: the token at its position,
\* the first token with its prefix without the prefix, or the value of its key
LiteralTexts(i) ==
    CASE op = "UnmarshalCSVToStruct" /\ HasToken(i) /\ Reached(i) ->
            {Tokens[ParseInt32(typ[i].pos).n + 1]}
      [] op = "UnmarshalCSVToStruct" /\ PrefixField(i) /\ Reached(i)
            /\ ~PrefixDeclaredBefore(i) ->
            {Stripped(k, i) : k \in {k \in 1..Len(Tokens) :
                                        /\ Carries(k, i)
                                        /\ \A j \in 1..(k - 1) : ~Carries(j, i)}}
      [] op = "UnmarshalJsonToStruct" /\ KeyPresent(i) ->
            {JsonFromEscaped(JsonMapGet(PayloadMap, typ[i].name))}
      [] OTHER -> {}

\* C19: after an unmarshal call (CSV by position, CSV by prefix, JSON) that
\* returned nil, a bool field with the literals "Y" and "N" holds true when
\* the text it read is "Y" and false when it is "N"; when both literals are
\* "Y" the text "Y" gives true
BoolLiteralOverride ==
    (op \in UnmarshalOps /\ err = "") =>
        \A i \in 1..Len(typ) :
            LiteralField(i) => \A t \in LiteralTexts(i) :
                /\ t = <<"Y">> => rec[i] = BoolVal(TRUE)
                /\ (t = <<"N">> /\ typ[i].boolfalse = <<"N">>) => rec[i] = BoolVal(FALSE)

\* the row "N,Y" read by position: the first field goes from true to false
\* by its false literal, the second, whose literals are both "Y", to true
BothLiteralsByPosition ==
    /\ op = "UnmarshalCSVToStruct" /\ err = ""
    /\ Len(typ) = 2 /\ LiteralField(1) /\ LiteralField(2)
    /\ typ[1].boolfalse = <<"N">> /\ typ[2].boolfalse = <<"Y">>
    /\ LiteralTexts(1) = {<<"N">>} /\ LiteralTexts(2) = {<<"Y">>}
    /\ pre[1] = BoolVal(TRUE) /\ rec[1] = BoolVal(FALSE)
    /\ pre[2] = BoolVal(FALSE) /\ rec[2] = BoolVal(TRUE)

\* the literal read behind a prefix, and the literal read from a JSON value
LiteralByPrefix ==
    /\ op = "UnmarshalCSVToStruct" /\ err = ""
    /\ \E i \in 1..Len(typ) :
          /\ LiteralField(i) /\ PrefixField(i) /\ LiteralTexts(i) = {<<"N">>}
          /\ pre[i] = BoolVal(TRUE) /\ rec[i] = BoolVal(FALSE)

LiteralByJson ==
    /\ op = "UnmarshalJsonToStruct" /\ err = ""
    /\ \E i \in 1..Len(typ) :
          /\ LiteralField(i) /\ LiteralTexts(i) = {<<"N">>}
          /\ pre[i] = BoolVal(TRUE) /\ rec[i] = BoolVal(FALSE)

\* field i is excluded from the returned call: its tag in the caller's name
\* namespace is "-", or its tag in the caller's exclusion namespace is "-"
Excluded(i) ==
    \/ TagGet(typ[i], args.tagName) = <<"-">>
    \/ /\ LenTrim(args.excludeTagName) > 0
       /\ Trim(TagGet(typ[i], args.excludeTagName)) = <<"-">>

\* field i is not excluded and has no name tag in the caller's namespace
FallsBack(i) == ~Excluded(i) /\ LenTrim(TagGet(typ[i], args.tagName)) = 0

\* the keys of the returned text, in order
OutputKeys ==
    IF op = "MarshalStructToJson" THEN JsonUnmarshal(ret).keys
    ELSE [k \in 1..Len(Split(ret, <<"&">>)) |->
             Split(Split(ret, <<"&">>)[k], <<"=">>)[1]]

\* the keys can be read off the returned text: always for JSON, and for a
\* query string when no value of the record holds '&' or '='
KeysReadable ==
    \/ op = "MarshalStructToJson"
    \/ \A i \in 1..Len(pre) : \A c \in 1..Len(pre[i].str) : pre[i].str[c] \notin {"&", "="}

\* field j is the first of its unique group among the fields not excluded
LeadsGroup(j) ==
    /\ ~Excluded(j) /\ Len(Trim(typ[j].uniqueid)) > 0
    /\ \A k \in 1..(j - 1) :
          Excluded(k) \/ ToLower(Trim(typ[k].uniqueid)) # ToLower(Trim(typ[j].uniqueid))

\* the text of the key of field i in the payload, read as the kind of field i
Overlaid(i) ==
    IF typ[i].kind = "string"
    THEN StrVal(JsonFromEscaped(JsonMapGet(PayloadMap, typ[i].name)))
    ELSE IntVal(ParseInt32(JsonFromEscaped(JsonMapGet(PayloadMap, typ[i].name))).n)

\* C20: an excluded field is not among the fields of the output of
\* MarshalStructToQueryParams and MarshalStructToJson and claims no unique
\* group (the first field of a group that is not excluded and produces a
\* value is in the output), and UnmarshalJsonToStruct leaves it as the reset
\* left it; a field without a name tag is written and read under its name
\* (the keys of a query string are read off it when no value holds '&', '=')
ExclusionAndKeyFallback ==
    /\ (op \in {"MarshalStructToQueryParams", "MarshalStructToJson"} /\ err = "") =>
          /\ \A i \in 1..Len(typ) :
                /\ Excluded(i) => ~Appears(i)
                /\ (LeadsGroup(i) /\ Produces(i)) => Appears(i)
          /\ KeysReadable =>
                /\ Len(OutputKeys) = Len(emitted)
                /\ \A k \in 1..Len(emitted) :
                      FallsBack(emitted[k]) => OutputKeys[k] = typ[emitted[k]].name
    /\ (op = "UnmarshalJsonToStruct" /\ err = "") =>
          \A i \in 1..Len(typ) :
              /\ (typ[i].canset /\ Excluded(i)) => rec[i] = PostDefault(i)
              /\ (/\ typ[i].canset /\ FallsBack(i) /\ typ[i].kind \in {"string", "int"}
                  /\ JsonMapHas(PayloadMap, typ[i].name)) => rec[i] = Overlaid(i)

\* a marshal call on two fields of one unique group: the first is excluded
\* by the exclusion namespace alone and the second is the output, under its
\* field name
ExcludedClaimsNoGroup ==
    /\ op \in {"MarshalStructToQueryParams", "MarshalStructToJson"} /\ err = ""
    /\ Len(typ) = 2
    /\ Excluded(1) /\ TagGet(typ[1], args.tagName) # <<"-">>
    /\ Len(Trim(typ[1].uniqueid)) > 0
    /\ ToLower(Trim(typ[1].uniqueid)) = ToLower(Trim(typ[2].uniqueid))
    /\ FallsBack(2)
    /\ emitted = <<2>>
    /\ OutputKeys = <<typ[2].name>>

\* a JSON call whose payload carries the name, the tag and "-" as keys: the
\* excluded field is as the reset left it, the other is read under its name
ExcludedNotOverlaid ==
    /\ op = "UnmarshalJsonToStruct" /\ err = ""
    /\ Len(typ) = 2
    /\ typ[1].canset /\ Excluded(1) /\ JsonMapHas(PayloadMap, typ[1].name)
    /\ JsonMapHas(PayloadMap, <<"-">>)
    /\ pre[1] # PostDefault(1) /\ rec[1] = PostDefault(1)
    /\ FallsBack(2) /\ typ[2].kind = "string" /\ rec[2] = Overlaid(2) /\ rec[2] # pre[2]

\* field i is required and its value is blank after the kind filter and the
\* default substitution
RequiredBlank(i) ==
    Processed(i) /\ TagReq(typ[i]) = StrTrue /\ FinalValue(i) = <<>>

\* C21: MarshalStructToCSV returns an error whenever a required field has a
\* blank value after filtering and default substitution, the record in
\* which no field is set included
RequiredBlankFails ==
    (CsvMarshalCall /\ \E i \in 1..Len(typ) : RequiredBlank(i)) => err # ""

\* MarshalStructToJson of element k of the slice of the returned call
ElementJson(k) ==
    MarshalStructToJson(args.elems[k].recv, typ, args.elems[k].rec, args.tagName,
                        args.excludeTagName)

\* C22: MarshalSliceStructToJson returns "[" + the MarshalStructToJson
\* results of the elements in order joined by ", " + "]"; for an empty slice
\* or when an element fails it returns ("", error)
SliceJoinsElements ==
    (op = "MarshalSliceStructToJson") =>
        IF Len(args.elems) = 0 \/ \E k \in 1..Len(args.elems) : ElementJson(k).err # ""
        THEN ret = <<>> /\ err # ""
        ELSE /\ err = ""
             /\ ret = <<"[">> \o Join([k \in 1..Len(args.elems) |-> ElementJson(k).out],
                                      <<",", " ">>) \o <<"]">>

\* a slice of two records that marshal to different texts
SliceOfTwoJoined ==
    /\ op = "MarshalSliceStructToJson" /\ err = ""
    /\ Len(args.elems) = 2
    /\ ElementJson(1).out # ElementJson(2).out
    /\ ret = <<"[">> \o ElementJson(1).out \o <<",", " ">> \o ElementJson(2).out \o <<"]">>

\* a slice whose second element fails after the first gave a text
SliceSecondFails ==
    /\ op = "MarshalSliceStructToJson" /\ err # "" /\ ret = <<>>
    /\ Len(args.elems) = 2
    /\ ElementJson(1).err = "" /\ ElementJson(1).out # <<>>
    /\ ElementJson(2).err # ""

\* the marshal result m is what the returned call gave
SameMarshal(m) == m.out = ret /\ m.err = err /\ m.emitted = emitted

\* the unmarshal result m, on the record the returned call left, is that record
SameUnmarshal(m) == m.rec = rec /\ m.err = err

GroupClaimedInCall ==
    /\ op \in {"MarshalStructToQueryParams", "MarshalStructToJson"} /\ err = ""
    /\ Len(typ) = 2 /\ emitted = <<1>>
    /\ Len(Trim(typ[1].uniqueid)) > 0
    /\ ToLower(Trim(typ[1].uniqueid)) = ToLower(Trim(typ[2].uniqueid))

\* a marshal call of a record that came to its field loop
MarshalWalk ==
    /\ op \in RecordMarshalOps /\ args.recv = "ok"
    /\ op # "MarshalStructToCSV" => LenTrim(args.tagName) > 0
    /\ op = "MarshalStructToCSV" =>
          ~(~IsStructFieldSet("ok", typ, pre)
            /\ StructNonDefaultRequiredFieldsCount("ok", typ, pre) > 0)

\* what the loop of the returned call carries after its first k fields
RECURSIVE WalkAfter(_)
WalkAfter(k) ==
    IF k = 0
    THEN IF op = "MarshalStructToCSV" THEN CsvStart(Len(typ)) ELSE MarshalStart
    ELSE CASE op = "MarshalStructToQueryParams" ->
                QueryField(typ, pre, k, args.tagName, args.excludeTagName, WalkAfter(k - 1))
           [] op = "MarshalStructToJson" ->
                JsonField(typ, pre, k, args.tagName, args.excludeTagName, WalkAfter(k - 1))
           [] OTHER ->
                IF WalkAfter(k - 1).err # "" THEN WalkAfter(k - 1)
                ELSE CsvMarshalField(typ, pre, k, WalkAfter(k - 1))

\* the visit of field k put a value into the output
OutputAt(k) ==
    IF op = "MarshalStructToCSV"
    THEN /\ WalkAfter(k - 1).err = "" /\ WalkAfter(k).err = ""
         /\ Participates(k)
         /\ WalkAfter(k).owner[ParseInt32(typ[k].pos).n + 1] = k
    ELSE WalkAfter(k).emitted = Append(WalkAfter(k - 1).emitted, k)

\* the walk is still going when it leaves field k
Walking(k) == op = "MarshalStructToCSV" => WalkAfter(k).err = ""

\* the group of field k
GroupOf(k) == ToLower(Trim(typ[k].uniqueid))

\* C24: in one marshal walk the visit of field k changes the unique-group
\* map in the group of k alone; a group already claimed makes the visit a
\* no-op; an unclaimed group is claimed by a participating field exactly
\* when the visit puts a value into the output, which it does exactly when
\* the field produces a non-skipped value, so a skipped field, a failed
\* rendering and an "unknown" int without default leave the group unclaimed
UniqueClaimStateMachine ==
    MarshalWalk =>
        \A k \in 1..Len(typ) :
            Walking(k) =>
                /\ WalkAfter(k).uniqueMap \ {GroupOf(k)}
                      = WalkAfter(k - 1).uniqueMap \ {GroupOf(k)}
                /\ Len(Trim(typ[k].uniqueid)) = 0 =>
                      WalkAfter(k).uniqueMap = WalkAfter(k - 1).uniqueMap
                /\ (Len(Trim(typ[k].uniqueid)) > 0
                    /\ GroupOf(k) \in WalkAfter(k - 1).uniqueMap) =>
                      WalkAfter(k) = WalkAfter(k - 1)
                /\ (Len(Trim(typ[k].uniqueid)) > 0
                    /\ GroupOf(k) \notin WalkAfter(k - 1).uniqueMap) =>
                      /\ GroupOf(k) \in WalkAfter(k).uniqueMap <=> OutputAt(k)
                      /\ OutputAt(k) <=> (Participates(k) /\ Produces(k))

\* a walk whose first field claims the group and is skipped: the group is
\* unclaimed again, the second field claims it and is the output
ClaimReleasedThenTaken ==
    /\ MarshalWalk /\ err = ""
    /\ Len(typ) = 2
    /\ Len(Trim(typ[1].uniqueid)) > 0 /\ GroupOf(1) = GroupOf(2)
    /\ Participates(1) /\ ~OutputAt(1)
    /\ WalkAfter(1).uniqueMap = {}
    /\ OutputAt(2)
    /\ WalkAfter(2).uniqueMap = {GroupOf(2)}

\* the release by an int field that holds 0, renders as "unknown" and has
\* no default
UnknownEnumReleases ==
    /\ MarshalWalk
    /\ \E k \in 1..Len(typ) :
          /\ Len(Trim(typ[k].uniqueid)) > 0 /\ Participates(k)
          /\ ~Rendered(k).err /\ ~Rendered(k).skip
          /\ IsUnknownEnum(typ[k], pre[k], Rendered(k).buf)
          /\ GroupOf(k) \notin WalkAfter(k).uniqueMap

\* the value the validate expression of field i is given by the returned
\* call is blank: the final value on marshal, the token on unmarshal
ValidatedBlank(i) ==
    /\ HasValidate(typ[i]) /\ TagReq(typ[i]) # StrTrue
    /\ \/ CsvMarshalCall /\ Processed(i) /\ FinalValue(i) = <<>>
       \/ CsvUnmarshalCall /\ HasToken(i) /\ TokenValue(i) = <<>>

\* C25: when every validated field is optional and its value is blank, no
\* validate expression, the named validator included, makes the CSV marshal
\* or unmarshal fail with a validation error
BlankOptionalNotValidated ==
    ((CsvMarshalCall \/ CsvUnmarshalCall)
     /\ \A i \in 1..Len(typ) : HasValidate(typ[i]) => ValidatedBlank(i))
        => err # "validate"

----------------------------------------------------------------------------
(* Properties of the row MarshalStructToCSV joins                          *)

\* the returned call was a CSV marshal that walked every field and joined
CsvJoined == CsvMarshalCall /\ MarshalWalk /\ err = "" /\ WalkAfter(Len(typ)).err = ""

\* the slots the walk of the returned call filled, and the text of slot p
FilledSlots == {p \in 1..Len(typ) : WalkAfter(Len(typ)).owner[p] # 0}

SlotText(p) == WalkAfter(Len(typ)).csvList[p]

OutputTokens == Split(ret, args.csvDelimiter)

\* C26: after a CSV marshal whose filled slots all hold a non-blank text,
\* the output split on the delimiter has at index p the text of the field
\* that declares pos p, for every filled slot, whatever slots are unset
OrdinalPositionsPreserved ==
    (CsvJoined /\ \A p \in FilledSlots : LenTrim(SlotText(p)) > 0)
        => \A p \in FilledSlots :
               /\ p <= Len(OutputTokens)
               /\ OutputTokens[p] = SlotText(p)

\* C27: after a CSV marshal that filled k slots, k at least 1, the output
\* holds k - 1 delimiters, blank texts counted as filled slots
OneDelimiterBetweenFilled ==
    (CsvJoined /\ FilledSlots # {})
        => Len(OutputTokens) - 1 = Cardinality(FilledSlots) - 1

----------------------------------------------------------------------------
(* Properties of the field walk of UnmarshalCSVToStruct                    *)

\* an ordinal string field without kind filter, setter, literals or validate
PlainOrdinalField(i) ==
    /\ OrdinalField(i)
    /\ typ[i].kind = "string"
    /\ typ[i].setter = <<>> /\ typ[i].booltrue = <<>> /\ typ[i].boolfalse = <<>>
    /\ typ[i].type = <<>> /\ typ[i].validate = <<>>

\* C28: after a CSV unmarshal that returned nil, every plain ordinal field
\* whose pos is below the token count holds the token at its pos, wherever
\* in the declaration order a field with a pos past the tokens stands
OrdinalIndependentOfOrder ==
    (CsvUnmarshalCall /\ err = "") =>
        \A i \in 1..Len(typ) :
            (PlainOrdinalField(i) /\ HasToken(i) /\ Len(TokenValue(i)) > 0) =>
                rec[i] = StrVal(TokenValue(i))

\* token k is the one prefix field i took its value from in the returned
\* call: the first token with the prefix of the field, the prefix not
\* claimed by an earlier field, and the field holds the text after it
Consumes(k, i) ==
    /\ PrefixField(i) /\ Reached(i) /\ ~PrefixDeclaredBefore(i)
    /\ PrefixToken(typ[i], Tokens) = k
    /\ typ[i].kind = "string" => rec[i] = StrVal(Stripped(k, i))

\* C29: after a CSV unmarshal that returned nil, no token was consumed by
\* two fields of the record
TokenConsumedOnce ==
    (CsvUnmarshalCall /\ err = "") =>
        \A k \in 1..Len(Tokens) :
            \A i, j \in 1..Len(typ) : (Consumes(k, i) /\ Consumes(k, j)) => i = j

----------------------------------------------------------------------------
(* Properties of the named validator of UnmarshalCSVToStruct               *)

\* what the field loop of the returned CSV unmarshal carries after its
\* first k fields
RECURSIVE CsvWalkAfter(_)
CsvWalkAfter(k) ==
    IF k = 0 THEN CsvSetStart(ResetRecord("ok", typ, pre))
    ELSE IF CsvWalkAfter(k - 1).err # "" \/ CsvWalkAfter(k - 1).stop
         THEN CsvWalkAfter(k - 1)
         ELSE CsvSetAt(typ, k, Tokens, args.registry, CsvWalkAfter(k - 1),
                       ParseInt32(typ[k].pos))

\* field i is a string read by position, with a token, whose validate tag
\* names a method of the record, and the loop comes to it
NamedField(i) ==
    /\ HasToken(i)
    /\ typ[i].kind = "string" /\ typ[i].setter = <<>> /\ typ[i].type = <<>>
    /\ HasValidate(typ[i]) /\ ValidateComp(typ[i]) = <<":", "=">>
    /\ CsvWalkAfter(i - 1).err = "" /\ ~CsvWalkAfter(i - 1).stop

\* the record as it stands when the method is called for field i: the
\* earlier fields as the loop left them, field i with its token
SeenBy(i) == [CsvWalkAfter(i - 1).rec EXCEPT ![i] = StrVal(TokenValue(i))]

Accepts(i) == ReflectCallValidator(SeenBy(i), ValidateData(typ[i])).ok

NamedValidatorRefusesEarlier ==
    /\ CsvUnmarshalCall /\ args.recv = "ok" /\ Len(typ) = 2
    /\ NamedField(2) /\ ~Accepts(2)
    /\ ReflectCallValidator([SeenBy(2) EXCEPT ![1] = ZeroVal], ValidateData(typ[2])).ok
    /\ HasToken(1) /\ SeenBy(2)[1] = StrVal(TokenValue(1))
    /\ err = "validate" /\ at = 2

\* the method accepted and the field kept a non-blank token
NamedValidatorAccepts ==
    /\ CsvUnmarshalCall /\ args.recv = "ok" /\ err = "" /\ Len(typ) = 2
    /\ NamedField(2) /\ Accepts(2)
    /\ rec[2] = StrVal(TokenValue(2)) /\ Len(TokenValue(2)) > 0
    /\ rec[1] # ResetRecord("ok", typ, pre)[1]

====
